---- MODULE Spec2Model ----
(***************************************************************************)
(* A model of the slide-deck regenerator: the Reader / Mapper / Writer of  *)
(* ppt_reader.py, the Rewrite Client of llm_service.py and the Section     *)
(* Orchestrator of ppt_processor.py.                                       *)
(*                                                                         *)
(* A text is a sequence of pieces (strings); concatenating strings is      *)
(* concatenating sequences, so a marker-prefixed text is <<marker>> \o t.  *)
(* Indexes keep the source's base: para_idx, run_idx and shape_idx are     *)
(* 0-based, slide_number is 1-based.                                       *)
(***************************************************************************)
EXTENDS Integers, Sequences, FiniteSets, TLC

VARIABLES
    \* ---- document layer (ppt_reader.py)
    doc,            \* the input file: a sequence of slides, each a sequence of shapes
    pc,             \* position of the main line of execution
    presentation_info, \* what read_ppt returned
    content_map,    \* what extract_content_with_mapping returned (mutated by the orchestrator)
    out_doc,        \* the file at output_path: [exists, slides]
    reread_map,     \* the Content Mapping of the output file read again
    w_result        \* what modify_ppt_with_mapping returned: [done, success, errors]

docVars == <<doc, presentation_info, content_map, out_doc, reread_map, w_result>>

VARIABLES
    \* ---- Rewrite Client (llm_service.py), one invocation of regenerate_content
    api_key,        \* self.api_key is set (truthy)
    c_caller,       \* who called: "test" (a direct call) or "orchestrator"
    c_content,      \* the section passed in
    c_context,      \* the previous_context passed in
    c_concepts,     \* the key_concepts passed in
    content_batches,
    batch_idx,      \* 0-based index of the sub-batch being sent
    attempt,        \* 0-based attempt of the retry loop of that sub-batch
    regenerated_content,
    c_blocks,       \* per finished sub-batch: how it ended, its entries, its HTTP requests
    c_requests,     \* HTTP requests sent so far for the current sub-batch
    c_last,         \* what became of the HTTP request sent last: "" (none sent), "accepted",
                    \* "connection_failure", "status" or "failure"
    c_result,       \* [state: "none" | "returned" | "raised", value, final]
    service,        \* the remote service of this run: the names of the outcomes it shows
    remote_called   \* an HTTP request has been sent to the remote service

clientVars == <<api_key, c_caller, c_content, c_context, c_concepts, content_batches,
                batch_idx, attempt, regenerated_content, c_blocks, c_requests, c_last,
                c_result, service, remote_called>>

VARIABLES
    \* ---- Section Orchestrator (ppt_processor.py), one process_presentation call
    has_callback,   \* progress_callback was given
    previous_context, \* the summaries appended so far, one piece per section
    key_concepts,   \* the keys of the key_concepts dict
    max_slides_per_section,
    max_total_slides,
    sections,       \* each section a sequence of references into content_map.slides
    section_idx,    \* 0-based index of the section being processed
    slides_processed,
    simulation_active, \* simulation_active['active'] of the dict the name is bound to
    o_attempt,      \* 0-based attempt of _process_section_with_retry
    section_info,   \* what _process_section_with_retry returned
    stats,
    cb_last,        \* `current` of the latest progress_callback invocation (-1: none yet)
    p_result,       \* [state: "none" | "returned" | "raised", by]
    threads         \* the simulate_progress thread of each section

orchVars == <<has_callback, previous_context, key_concepts, max_slides_per_section,
              max_total_slides, sections, section_idx, slides_processed, simulation_active,
              o_attempt, section_info, stats, cb_last, p_result, threads>>

vars == <<pc, docVars, clientVars, orchVars>>

----------------------------------------------------------------------------
(* Generic helpers *)

Range(s) == {s[i] : i \in 1..Len(s)}

Min(a, b) == IF a <= b THEN a ELSE b

RECURSIVE ConcatAll(_)
ConcatAll(ss) == IF ss = <<>> THEN <<>> ELSE Head(ss) \o ConcatAll(Tail(ss))

\* The sequences over S of length 0..n
SeqUpTo(S, n) == UNION {[1..k -> S] : k \in 0..n}

----------------------------------------------------------------------------
(* Texts *)

\* str.strip() of a run's text is empty: the text holds nothing but whitespace
Blank(t) == \A i \in 1..Len(t) : t[i] \in {"", " "}

\* f"{marker}{text}"
Prefixed(marker, t) == <<marker>> \o t

\* What the remote service makes of a text when it does what it is asked
Rewritten(t) == Prefixed("new ", t)

\* A text the service made up
TextNew == <<"new">>

\* A JSON number or null where a text is expected: a value that is no str
NotAString == <<"<number>">>
IsString(t) == t # NotAString

REGENERATION_FAILED == "REGENERATION-FAILED: "
FINAL_ERROR == "FINAL-ERROR: "
PLACEHOLDER == "PLACEHOLDER: "

----------------------------------------------------------------------------
(* The document: python-pptx's object tree, as far as the code walks it.   *)
(* A shape is [kind, hasTF, paras, children]: hasTF is hasattr(shape,      *)
(* "text_frame"); paras is the text frame's paragraphs, each a sequence of *)
(* runs (texts); children are a group's sub-shapes.                        *)

TextShape(paras) == [kind |-> "text", hasTF |-> TRUE, paras |-> paras, children |-> <<>>]
\* python-pptx's GroupShape has no text_frame attribute
GroupShape(children) == [kind |-> "group", hasTF |-> FALSE, paras |-> <<>>, children |-> children]
Picture == [kind |-> "picture", hasTF |-> FALSE, paras |-> <<>>, children |-> <<>>]

\* paragraph.text.strip() is empty
ParaBlank(para) == \A r \in 1..Len(para) : Blank(para[r])

\* The runs of one paragraph that read_ppt records (lines 77-85)
ParaRunMap(para, para_idx) ==
    LET keep == SelectSeq([r \in 1..Len(para) |-> r], LAMBDA r : ~Blank(para[r]))
    IN [k \in 1..Len(keep) |->
            [para_idx |-> para_idx, run_idx |-> keep[k] - 1, text |-> para[keep[k]]]]

\* The text frame walk of process_shape (lines 72-85)
TextFrameRunMap(paras) ==
    ConcatAll([p \in 1..Len(paras) |->
        IF ParaBlank(paras[p]) THEN <<>> ELSE ParaRunMap(paras[p], p - 1)])

\* process_shape: the text_map it leaves in shape_info, and whether it set
\* group_text_warning.  A sub-shape's own shape_info is dropped after its
\* text_map was appended to the parent's.
RECURSIVE ProcessShape(_)
ProcessShape(shape) ==
    IF shape.kind = "group"
    THEN LET tm == ConcatAll([k \in 1..Len(shape.children) |->
                                 ProcessShape(shape.children[k]).text_map])
         IN [text_map |-> tm, group_text_warning |-> tm # <<>>]
    ELSE IF shape.hasTF
         THEN [text_map |-> TextFrameRunMap(shape.paras), group_text_warning |-> FALSE]
         ELSE [text_map |-> <<>>, group_text_warning |-> FALSE]

\* shape_info of read_ppt (lines 106-130)
ShapeInfo(shape, j) ==
    LET p == ProcessShape(shape)
    IN [shape_id |-> j,
        shape_type |-> shape.kind,
        has_text_frame |-> shape.hasTF,
        text_map |-> p.text_map,
        group_text_warning |-> p.group_text_warning]

\* slide_info of read_ppt (lines 95-136): texts collects every shape's text_map
SlideInfo(slide, i) ==
    LET shapes == [j \in 1..Len(slide) |-> ShapeInfo(slide[j], j)]
    IN [slide_number |-> i,
        shapes |-> shapes,
        texts |-> ConcatAll([j \in 1..Len(shapes) |->
                    [k \in 1..Len(shapes[j].text_map) |-> shapes[j].text_map[k].text]])]

ReadPpt(d) ==
    [slide_count |-> Len(d),
     slides |-> [i \in 1..Len(d) |-> SlideInfo(d[i], i)]]

\* A Mapper that takes the text_map of every shape, groups included
TextMappingsOfAllShapes(shapes) ==
    ConcatAll([j \in 1..Len(shapes) |->
        [k \in 1..Len(shapes[j].text_map) |->
            [shape_idx |-> j - 1,
             para_idx |-> shapes[j].text_map[k].para_idx,
             run_idx |-> shapes[j].text_map[k].run_idx,
             text |-> shapes[j].text_map[k].text]]])

\* text_mappings of one slide (lines 173-182): only shapes with a text frame
TextMappings(shapes) ==
    ConcatAll([j \in 1..Len(shapes) |->
        IF shapes[j].has_text_frame
        THEN [k \in 1..Len(shapes[j].text_map) |->
                [shape_idx |-> j - 1,
                 para_idx |-> shapes[j].text_map[k].para_idx,
                 run_idx |-> shapes[j].text_map[k].run_idx,
                 text |-> shapes[j].text_map[k].text]]
        ELSE <<>>])

\* shape_warnings of one slide (lines 184-191): inside the has_text_frame test
ShapeWarnings(shapes) ==
    ConcatAll([j \in 1..Len(shapes) |->
        IF shapes[j].has_text_frame /\ shapes[j].group_text_warning
        THEN <<[shape_idx |-> j - 1]>>
        ELSE <<>>])

NoBeforeAfter == [slide_number |-> 0, changes |-> <<>>, error |-> ""]

\* slide_content (lines 163-193); the keys the orchestrator attaches later
\* (regenerated_texts, before_after) start absent
SlideContent(slide) ==
    [slide_number |-> slide.slide_number,
     texts |-> slide.texts,
     text_mappings |-> TextMappings(slide.shapes),
     shape_warnings |-> ShapeWarnings(slide.shapes),
     has_regenerated_texts |-> FALSE,
     regenerated_texts |-> <<>>,
     has_before_after |-> FALSE,
     before_after |-> NoBeforeAfter]

ExtractContentWithMapping(info) ==
    LET slides == [i \in 1..Len(info.slides) |-> SlideContent(info.slides[i])]
    IN [slide_count |-> info.slide_count,
        slides |-> slides,
        warnings |-> ConcatAll([i \in 1..Len(slides) |-> slides[i].shape_warnings])]

----------------------------------------------------------------------------
(* The Writer: modify_ppt_with_mapping (lines 209-311) *)

\* Does the mapping's address resolve in the opened slide (lines 241-276)?
Resolves(slide, m) ==
    /\ m.shape_idx < Len(slide)
    /\ slide[m.shape_idx + 1].hasTF
    /\ m.para_idx < Len(slide[m.shape_idx + 1].paras)
    /\ m.run_idx < Len(slide[m.shape_idx + 1].paras[m.para_idx + 1])

RunAt(slide, m) == slide[m.shape_idx + 1].paras[m.para_idx + 1][m.run_idx + 1]

\* A Writer that leaves a run without a regenerated text as it is
NewTextKeepsOriginal(slide, m, mapping_idx, regenerated_texts) ==
    IF mapping_idx < Len(regenerated_texts)
    THEN regenerated_texts[mapping_idx + 1]
    ELSE RunAt(slide, m)

\* The new text of mapping number mapping_idx (0-based), lines 281-285
NewText(slide, m, mapping_idx, regenerated_texts) ==
    IF mapping_idx < Len(regenerated_texts)
    THEN regenerated_texts[mapping_idx + 1]
    ELSE Prefixed(PLACEHOLDER, RunAt(slide, m))

\* The loop over one slide's text_mappings, from mapping k on: the slide as
\* left by the replacements and the number of recorded errors
RECURSIVE ApplyMappings(_, _, _, _)
ApplyMappings(slide, mappings, regenerated_texts, k) ==
    IF k > Len(mappings) THEN [slide |-> slide, errors |-> 0]
    ELSE LET m == mappings[k]
         IN IF ~Resolves(slide, m)
            THEN LET rest == ApplyMappings(slide, mappings, regenerated_texts, k + 1)
                 IN [slide |-> rest.slide, errors |-> rest.errors + 1]
            ELSE ApplyMappings(
                    [slide EXCEPT ![m.shape_idx + 1].paras[m.para_idx + 1][m.run_idx + 1] =
                        NewText(slide, m, k - 1, regenerated_texts)],
                    mappings, regenerated_texts, k + 1)

\* The loop over content_map["slides"], from entry k on
RECURSIVE ApplySlides(_, _, _)
ApplySlides(prs, slides, k) ==
    IF k > Len(slides) THEN [prs |-> prs, errors |-> 0]
    ELSE LET slide_idx == slides[k].slide_number - 1
         IN IF slide_idx >= Len(prs)
            THEN LET rest == ApplySlides(prs, slides, k + 1)
                 IN [prs |-> rest.prs, errors |-> rest.errors + 1]
            ELSE LET r == ApplyMappings(prs[slide_idx + 1], slides[k].text_mappings,
                                        slides[k].regenerated_texts, 1)
                     rest == ApplySlides([prs EXCEPT ![slide_idx + 1] = r.slide], slides, k + 1)
                 IN [prs |-> rest.prs, errors |-> rest.errors + r.errors]

\* A Writer that gives up, saving nothing, when an entry does not resolve
ModifyPptAbortsOnError(input, cmap) ==
    LET r == ApplySlides(input, cmap.slides, 1)
    IN IF r.errors > 0
       THEN [success |-> FALSE, saved |-> input, errors |-> r.errors]
       ELSE [success |-> TRUE, saved |-> r.prs, errors |-> 0]

\* modify_ppt_with_mapping on a file that opens and saves: the saved document
ModifyPptWithMapping(input, cmap) ==
    LET r == ApplySlides(input, cmap.slides, 1)
    IN [success |-> TRUE, saved |-> r.prs, errors |-> r.errors]

\* Before the Reader, the Mapper and the Writer have run
NoInfo == [slide_count |-> 0, slides |-> <<>>]
NoMap == [slide_count |-> 0, slides |-> <<>>, warnings |-> <<>>]
NoFile == [exists |-> FALSE, valid |-> FALSE, slides |-> <<>>]
SavedFile(prs) == [exists |-> TRUE, valid |-> TRUE, slides |-> prs]
\* What prs.save leaves at output_path when it raises after creating the file
PartialFile == [exists |-> TRUE, valid |-> FALSE, slides |-> <<>>]
NoWrite == [done |-> FALSE, success |-> FALSE, errors |-> 0, io |-> ""]
Written(w) == [done |-> TRUE, success |-> w.success, errors |-> w.errors, io |-> w.io]

\* run.text = new_text (line 296) raises TypeError for a value that is no str
AssignRaises(input, cmap) ==
    \E c \in 1..Len(cmap.slides) :
        /\ cmap.slides[c].slide_number <= Len(input)
        /\ \E k \in 1..Len(cmap.slides[c].text_mappings) :
              /\ Resolves(input[cmap.slides[c].slide_number], cmap.slides[c].text_mappings[k])
              /\ k <= Len(cmap.slides[c].regenerated_texts)
              /\ ~IsString(cmap.slides[c].regenerated_texts[k])

\* What the file system does with Presentation(input_path) and prs.save
WriterOutcomes == {"ok", "open_fails", "save_fails", "save_fails_midway"}

\* modify_ppt_with_mapping (lines 209-311) with its except Exception: old is
\* the file at output_path before the call
ModifyPpt(input, cmap, io, old) ==
    LET w == ModifyPptWithMapping(input, cmap)
    IN IF io = "ok" /\ ~AssignRaises(input, cmap) /\ w.success
       THEN [success |-> TRUE, file |-> SavedFile(w.saved), errors |-> w.errors, io |-> io]
       ELSE [success |-> FALSE,
             file |-> IF io = "save_fails_midway" /\ ~AssignRaises(input, cmap) /\ w.success
                      THEN PartialFile ELSE old,
             errors |-> 0, io |-> io]

----------------------------------------------------------------------------
(* The Rewrite Client: llm_service.py *)

MAX_TOKENS == 3500
RESERVE == 500
MAX_RETRIES == 3

\* What the regular expressions and str.split of _calculate_prompt_tokens
\* count in a piece.  "big" and "huge" stand for texts of 1300 and 2600
\* plain words, "1, 2: {x}" is itself.
PieceCounts(p) ==
    CASE p = "big" -> [words |-> 1300, punct |-> 0, code |-> 0, special |-> 0]
      [] p = "huge" -> [words |-> 2600, punct |-> 0, code |-> 0, special |-> 0]
      [] p = "1, 2: {x}" -> [words |-> 3, punct |-> 2, code |-> 3, special |-> 2]
      [] p \in {"", " "} -> [words |-> 0, punct |-> 0, code |-> 0, special |-> 0]
      [] OTHER -> [words |-> 1, punct |-> 0, code |-> 0, special |-> 0]

AddCounts(x, y) ==
    [words |-> x.words + y.words, punct |-> x.punct + y.punct,
     code |-> x.code + y.code, special |-> x.special + y.special]

ZeroCounts == [words |-> 0, punct |-> 0, code |-> 0, special |-> 0]

\* The counts of "\n".join(pieces...): the separator is white space
RECURSIVE SumCounts(_)
SumCounts(pieces) ==
    IF pieces = <<>> THEN ZeroCounts
    ELSE AddCounts(PieceCounts(Head(pieces)), SumCounts(Tail(pieces)))

\* _calculate_prompt_tokens (lines 130-148); int(x * 1.2) is (x * 12) \div 10
CalculatePromptTokens(c) ==
    LET total_tokens == c.words + (c.punct \div 2) + (c.code \div 3) + (c.special \div 3)
        buffered == (total_tokens * 12) \div 10
    IN IF buffered > 10 THEN buffered ELSE 10

\* slide_tokens of _split_content_by_tokens (lines 169-170)
SlideTokens(slide) == CalculatePromptTokens(SumCounts(ConcatAll(slide.texts)))

\* The loop of _split_content_by_tokens (lines 167-187), from slide k on
RECURSIVE SplitFrom(_, _, _, _, _, _)
SplitFrom(content, k, batches, current_batch, current_tokens, max_tokens) ==
    IF k > Len(content)
    THEN IF current_batch # <<>> THEN Append(batches, current_batch) ELSE batches
    ELSE LET slide_tokens == SlideTokens(content[k])
             dynamic_max_tokens == max_tokens - RESERVE
             over == current_tokens + slide_tokens > dynamic_max_tokens
         IN SplitFrom(content, k + 1,
                IF over /\ current_batch # <<>> THEN Append(batches, current_batch) ELSE batches,
                Append(IF over THEN <<>> ELSE current_batch, content[k]),
                (IF over THEN 0 ELSE current_tokens) + slide_tokens,
                max_tokens)

\* A split that puts every slide into one sub-batch
SplitAllInOne(content, max_tokens) == IF content = <<>> THEN <<>> ELSE <<content>>

\* A split that forgets the sub-batch still open after the loop
SplitWithoutLastBatch(content, max_tokens) ==
    LET batches == SplitFrom(content, 1, <<>>, <<>>, 0, max_tokens)
    IN SubSeq(batches, 1, Len(batches) - 1)

SplitContentByTokens(content, max_tokens) == SplitFrom(content, 1, <<>>, <<>>, 0, max_tokens)

\* An entry of the returned list: a dict with slide_number and texts, or
\* something that is no dict (is_dict FALSE)
Entry(slide_number, texts) == [is_dict |-> TRUE, slide_number |-> slide_number, texts |-> texts]
NonDictEntry == [is_dict |-> FALSE, slide_number |-> 0, texts |-> <<>>]

\* A placeholder that joins a slide's texts into one marked text
PlaceholderEntryJoined(slide, marker) ==
    Entry(slide.slide_number, <<Prefixed(marker, ConcatAll(slide.texts))>>)

\* {**slide, "texts": [f"{marker}{text}" ...]} (lines 334-340, 359-365)
PlaceholderEntry(slide, marker) ==
    Entry(slide.slide_number, [i \in 1..Len(slide.texts) |-> Prefixed(marker, slide.texts[i])])

\* A placeholder block that covers only the sub-batch's first slide
BatchPlaceholderFirstOnly(batch) ==
    <<PlaceholderEntry(batch[1], REGENERATION_FAILED)>>

\* A failed sub-batch that gets its placeholder block twice
BatchPlaceholderTwice(batch) ==
    [i \in 1..(2 * Len(batch)) |->
        PlaceholderEntry(batch[((i - 1) % Len(batch)) + 1], REGENERATION_FAILED)]

BatchPlaceholder(batch) ==
    [i \in 1..Len(batch) |-> PlaceholderEntry(batch[i], REGENERATION_FAILED)]

FinalPlaceholder(content) ==
    [i \in 1..Len(content) |-> PlaceholderEntry(content[i], FINAL_ERROR)]

(* The remote service.  An outcome of requests.post is a timeout, a         *)
(* connection failure, another transport error, a status other than 200, a  *)
(* 200 whose envelope has no message content to read, or a 200 with a       *)
(* message: strict is what json.loads makes of the whole message, fenced    *)
(* what it makes of the interior of a ```json fence.  A parsed value is      *)
(* [type, items]: "list" (items are its entries), "iterable" (a dict or a   *)
(* string: extend() takes its keys or characters), "scalar", "invalid" (not *)
(* JSON) or "none" (no fence in the message).                               *)

JList(items) == [type |-> "list", items |-> items]
JIterable == [type |-> "iterable", items |-> <<NonDictEntry>>]
JScalar == [type |-> "scalar", items |-> <<>>]
JInvalid == [type |-> "invalid", items |-> <<>>]
JNone == [type |-> "none", items |-> <<>>]

GoodEntries(batch) ==
    [i \in 1..Len(batch) |->
        Entry(batch[i].slide_number,
              [j \in 1..Len(batch[i].texts) |-> Rewritten(batch[i].texts[j])])]

Reversed(s) == [i \in 1..Len(s) |-> s[Len(s) + 1 - i]]

\* The arrays the service may answer a sub-batch with, by name
ResponseList(name, batch) ==
    LET good == GoodEntries(batch)
    IN CASE name = "good" -> good
         [] name = "empty" -> <<>>
         [] name = "short" -> SubSeq(good, 1, Len(good) - 1)
         [] name = "long" -> Append(good, Entry(Len(good) + 1, <<TextNew>>))
         [] name = "reversed" -> Reversed(good)
         [] name = "renumbered" ->
                [i \in 1..Len(good) |-> [good[i] EXCEPT !.slide_number = @ + 1]]
         [] name = "fewer_texts" ->
                [i \in 1..Len(good) |-> [good[i] EXCEPT !.texts = SubSeq(@, 1, Len(@) - 1)]]
         [] name = "last_not_dict" ->
                [i \in 1..Len(good) |-> IF i = Len(good) THEN NonDictEntry ELSE good[i]]
         [] name = "number_texts" ->
                [i \in 1..Len(good) |->
                    [good[i] EXCEPT !.texts = [j \in 1..Len(@) |-> NotAString]]]
         [] OTHER -> [i \in 1..Len(good) |-> [good[i] EXCEPT !.texts = Append(@, TextNew)]]

ListNames ==
    {"good", "empty", "short", "long", "reversed", "renumbered", "fewer_texts", "more_texts",
     "number_texts", "last_not_dict"}

FailureNames == {"timeout", "connection_error", "transport_error", "status", "bad_envelope"}

Body(name, strict, fenced) ==
    [name |-> name, kind |-> "body", strict |-> strict, fenced |-> fenced]
Failure(kind) == [name |-> kind, kind |-> kind, strict |-> JNone, fenced |-> JNone]

\* Everything the service may do with a request for the sub-batch.  Of the
\* bodies that are no array, each way to fail the strict parse (an object, a
\* scalar, no JSON) and each content of the fence (none, no JSON, a scalar;
\* an array, an empty array, an object) occurs once
AllOutcomes(batch) ==
    {Failure(k) : k \in FailureNames}
    \cup {Body(n, JList(ResponseList(n, batch)), JNone) : n \in ListNames}
    \cup {Body("unparsed", JIterable, JNone), Body("unparsed", JScalar, JInvalid),
          Body("unparsed", JInvalid, JScalar)}
    \cup {Body("fenced", JIterable, JList(GoodEntries(batch))),
          Body("fenced", JScalar, JIterable), Body("fenced", JInvalid, JList(<<>>))}
    \cup {Body("both", JList(GoodEntries(batch)), JList(<<>>))}

OutcomeNames == FailureNames \cup ListNames \cup {"unparsed", "fenced", "both"}

\* What the client sees of an outcome: a reply it accepts, a timeout or
\* connection failure, a status other than 200, any other failure
Accepting == ListNames \cup {"fenced", "both"}
Seen(o) ==
    CASE o.name \in Accepting -> "accepted"
      [] o.name \in {"timeout", "connection_error"} -> "connection_failure"
      [] o.name = "status" -> "status"
      [] OTHER -> "failure"

\* The outcomes the service of this run shows
Outcomes(batch) == {o \in AllOutcomes(batch) : o.name \in service}

(* Exceptions and the except clauses that stand in their way *)

Normal(t, items) == [t |-> t, exc |-> "", items |-> items]
Raise(exc) == [t |-> "raise", exc |-> exc, items |-> <<>>]

\* except (json.JSONDecodeError, ValueError) as parse_error (line 277)
ParseHandlerCatches(exc) == exc \in {"JSONDecodeError", "ValueError"}
\* A connection handler that takes every exception of the attempt
ConnectionHandlerCatchesAll(exc) == TRUE
\* except (requests.Timeout, requests.ConnectionError) (line 306)
ConnectionHandlerCatches(exc) == exc \in {"Timeout", "ConnectionError"}
\* except Exception as batch_error (line 323)
BatchHandlerCatches(exc) == TRUE
\* except Exception as final_error (line 349)
FinalHandlerCatches(exc) == TRUE

\* json.loads of the message and the list test (lines 268-275)
StrictParse(o) ==
    CASE o.strict.type = "list" -> Normal("accept", o.strict.items)
      [] o.strict.type = "invalid" -> Raise("JSONDecodeError")
      [] OTHER -> Raise("ValueError")

\* The markdown fallback (lines 282-289): extend() takes any iterable; what
\* it raises is caught and printed
FencedParse(o) ==
    IF o.fenced.type \in {"list", "iterable"}
    THEN Normal("accept", o.fenced.items)
    ELSE Normal("continue", <<>>)

\* A parse that looks for the code fence before it tries the whole message
TryPostFenceFirst(o, att) ==
    LET f == FencedParse(o)
        p == StrictParse(o)
    IN IF f.t = "accept" THEN f
       ELSE IF p.t # "raise" THEN p
       ELSE IF att = MAX_RETRIES - 1 THEN Raise(p.exc)
       ELSE Normal("continue", <<>>)

\* The body of the attempt's try block (lines 253-304)
TryPost(o, att) ==
    CASE o.kind = "timeout" -> Raise("Timeout")
      [] o.kind = "connection_error" -> Raise("ConnectionError")
      [] o.kind = "transport_error" -> Raise("RequestException")
      [] o.kind = "status" -> Raise("RequestException")
      [] o.kind = "bad_envelope" -> Raise("TypeError")
      [] OTHER ->
            LET p == StrictParse(o)
            IN IF p.t # "raise" THEN p
               ELSE IF ~ParseHandlerCatches(p.exc) THEN p
               ELSE LET f == FencedParse(o)
                    IN IF f.t = "accept" THEN f
                       ELSE IF att = MAX_RETRIES - 1 THEN Raise(p.exc)
                       ELSE Normal("continue", <<>>)

\* A retry loop without the handler of connection failures
AttemptWithoutRetry(o, att) == TryPost(o, att)

\* One pass of the retry loop (lines 251-321): "accept" (break with entries),
\* "continue" (next attempt; "sleep" after a connection failure) or "raise"
Attempt(o, att) ==
    LET r == TryPost(o, att)
    IN IF r.t = "raise" /\ ConnectionHandlerCatches(r.exc)
       THEN IF att = MAX_RETRIES - 1 THEN r ELSE Normal("sleep", <<>>)
       ELSE r

NoResult == [state |-> "none", value |-> <<>>, final |-> FALSE]
Returned(value, final) == [state |-> "returned", value |-> value, final |-> final]
RaisedResult == [state |-> "raised", value |-> <<>>, final |-> FALSE]

\* Where the caller goes on
AfterClient == IF c_caller = "orchestrator" THEN "o_returned" ELSE "c_done"

\* The final validation without the except clause around the whole call
FinishUnguarded(regenerated, exc) ==
    IF exc = "" /\ regenerated # <<>> THEN Returned(regenerated, FALSE) ELSE RaisedResult

\* Lines 343-367: the final validation, and the fallback of the whole call
\* for an exception exc that left the loop over the sub-batches ("" for none)
Finish(regenerated, exc) ==
    LET e == IF exc = "" /\ regenerated = <<>> THEN "ValueError" ELSE exc
    IN IF e = "" THEN Returned(regenerated, FALSE)
       ELSE IF FinalHandlerCatches(e) THEN Returned(FinalPlaceholder(c_content), TRUE)
       ELSE RaisedResult

\* A client that goes on without a key
KeyMissingIgnored(key) == FALSE

\* if not self.api_key (line 209)
KeyMissing(key) == ~key

ClientIdle ==
    /\ api_key = TRUE
    /\ c_caller = "test"
    /\ c_content = <<>>
    /\ content_batches = <<>>
    /\ batch_idx = 0
    /\ attempt = 0
    /\ regenerated_content = <<>>
    /\ c_blocks = <<>>
    /\ c_requests = 0
    /\ c_last = ""
    /\ c_context = <<>>
    /\ c_concepts = {}
    /\ c_result = NoResult
    /\ service = {}
    /\ remote_called = FALSE

\* regenerate_content up to the first HTTP request (lines 209-226)
ClientEnter ==
    /\ pc = "c_enter"
    /\ regenerated_content' = <<>>
    /\ c_blocks' = <<>>
    /\ batch_idx' = 0
    /\ attempt' = 0
    /\ c_requests' = 0
    /\ c_last' = ""
    /\ IF KeyMissing(api_key)
       THEN /\ c_result' = RaisedResult
            /\ content_batches' = <<>>
            /\ pc' = AfterClient
       ELSE LET batches == SplitContentByTokens(c_content, MAX_TOKENS)
            IN /\ content_batches' = batches
               /\ IF batches = <<>>
                  THEN c_result' = Finish(<<>>, "") /\ pc' = AfterClient
                  ELSE c_result' = NoResult /\ pc' = "c_request"
    /\ UNCHANGED <<docVars, api_key, c_context, c_concepts, c_caller, c_content, service,
                   remote_called, orchVars>>

\* One requests.post and everything up to the next one or to the return
\* (lines 251-367)
ClientRequest ==
    /\ pc = "c_request"
    /\ LET batch == content_batches[batch_idx + 1]
       IN \E o \in Outcomes(batch) :
            LET r == Attempt(o, attempt)
                caught == r.t = "raise" /\ BatchHandlerCatches(r.exc)
                entries == IF r.t = "accept" THEN r.items ELSE BatchPlaceholder(batch)
                block == [end |-> IF r.t = "accept" THEN "response" ELSE "placeholder",
                          entries |-> entries, requests |-> c_requests + 1]
                last == batch_idx + 1 = Len(content_batches)
            IN /\ c_last' = Seen(o)
               /\ IF r.t \in {"continue", "sleep"}
                  THEN /\ attempt' = attempt + 1
                       /\ c_requests' = c_requests + 1
                       /\ UNCHANGED <<pc, batch_idx, regenerated_content, c_blocks, c_result>>
                  ELSE IF r.t = "raise" /\ ~caught
                  THEN /\ c_result' = Finish(regenerated_content, r.exc)
                       /\ pc' = AfterClient
                       /\ c_requests' = c_requests + 1
                       /\ UNCHANGED <<attempt, batch_idx, regenerated_content, c_blocks>>
                  ELSE /\ regenerated_content' = regenerated_content \o entries
                       /\ c_blocks' = Append(c_blocks, block)
                       /\ attempt' = 0
                       /\ c_requests' = 0
                       /\ IF last
                          THEN /\ c_result' = Finish(regenerated_content \o entries, "")
                               /\ pc' = AfterClient
                               /\ UNCHANGED batch_idx
                          ELSE /\ batch_idx' = batch_idx + 1
                               /\ UNCHANGED <<pc, c_result>>
    /\ remote_called' = TRUE
    /\ UNCHANGED <<docVars, api_key, c_context, c_concepts, c_caller, c_content,
                   content_batches, service, orchVars>>

----------------------------------------------------------------------------
(* The Section Orchestrator: ppt_processor.py *)

MAX_TOTAL_SLIDES == 500
ORCH_MAX_RETRIES == 3
\* A section longer than this gets a simulate_progress thread (line 114)
SIMULATION_MIN == 3

\* A splitter that leaves out a last section of fewer than max slides
SplitWithoutRemainder(slides, max) ==
    [k \in 1..(Len(slides) \div max) |-> SubSeq(slides, (k - 1) * max + 1, k * max)]

\* range(0, len(slides), max) raises ValueError for a step of zero (line 247)
RangeRaises(max) == max = 0

\* _split_presentation_into_sections (lines 246-250):
\* slides[i:i + max] for i in range(0, len(slides), max); the range of a
\* negative step from 0 upwards is empty
SplitPresentationIntoSections(slides, max) ==
    LET n == Len(slides)
    IN IF max <= 0 THEN <<>>
       ELSE [k \in 1..((n + max - 1) \div max) |->
                SubSeq(slides, (k - 1) * max + 1, Min(k * max, n))]

\* utils.split_into_sections (lines 21-36) from slide i (0-based) on
RECURSIVE SplitIntoSectionsFrom(_, _, _, _, _)
SplitIntoSectionsFrom(slides, max, i, secs, current_section) ==
    IF i >= Len(slides) THEN secs
    ELSE LET current == Append(current_section, slides[i + 1])
         IN IF (i + 1) % max = 0 \/ i = Len(slides) - 1
            THEN SplitIntoSectionsFrom(slides, max, i + 1, Append(secs, current), <<>>)
            ELSE SplitIntoSectionsFrom(slides, max, i + 1, secs, current)

SplitIntoSections(slides, max) == SplitIntoSectionsFrom(slides, max, 0, <<>>, <<>>)

\* The slide dicts a section holds: the very dicts of content_map["slides"]
SectionSlides(map, sec) == [i \in 1..Len(sec) |-> map.slides[sec[i]]]

Section == sections[section_idx + 1]

NoStats == [total_slides |-> 0, sections |-> 0, before_after |-> <<>>,
            warnings |-> <<>>, has_success |-> FALSE, success |-> FALSE,
            key_concepts |-> {}]
NoSectionInfo == [kind |-> "none", slides |-> <<>>]
NoThread == [pc |-> "none", i |-> 0, start_slide |-> 0, num_slides |-> 0]
PNone == [state |-> "none", by |-> ""]
PRaised(by) == [state |-> "raised", by |-> by]

OrchIdle ==
    /\ has_callback = FALSE
    /\ max_slides_per_section = 1
    /\ max_total_slides = MAX_TOTAL_SLIDES
    /\ sections = <<>>
    /\ section_idx = 0
    /\ slides_processed = 0
    /\ simulation_active = FALSE
    /\ o_attempt = 0
    /\ section_info = NoSectionInfo
    /\ previous_context = <<>>
    /\ key_concepts = {}
    /\ stats = NoStats
    /\ cb_last = -1
    /\ p_result = PNone
    /\ threads = <<>>

\* A limit that also rejects a document of exactly the maximum
OverLimitInclusive(total_slides, max) == total_slides >= max

\* if total_slides > self.max_total_slides (line 67)
OverLimit(total_slides, max) == total_slides > max

\* Lines 55-96: read, map, validate the slide count, split, set up stats
ProcessStart ==
    /\ pc = "p_start"
    /\ LET info == ReadPpt(doc)
           map == ExtractContentWithMapping(info)
           total_slides == map.slide_count
           secs == SplitPresentationIntoSections(
                       [i \in 1..Len(map.slides) |-> i], max_slides_per_section)
       IN /\ presentation_info' = info
          /\ content_map' = map
          /\ IF OverLimit(total_slides, max_total_slides)
             THEN /\ p_result' = PRaised("slide_limit")
                  /\ pc' = "p_raised"
                  /\ UNCHANGED <<sections, stats, threads>>
             ELSE IF RangeRaises(max_slides_per_section)
             THEN /\ p_result' = PRaised("range")
                  /\ pc' = "p_raised"
                  /\ UNCHANGED <<sections, stats, threads>>
             ELSE /\ sections' = secs
                  /\ threads' = [k \in 1..Len(secs) |-> NoThread]
                  /\ stats' = [NoStats EXCEPT !.total_slides = total_slides,
                                              !.sections = Len(secs),
                                              !.warnings = map.warnings]
                  /\ pc' = "p_report_initial"
                  /\ UNCHANGED p_result
    /\ UNCHANGED <<doc, out_doc, reread_map, w_result, clientVars, has_callback,
                   previous_context, key_concepts, max_slides_per_section, max_total_slides,
                   section_idx, slides_processed, simulation_active, o_attempt,
                   section_info, cb_last>>

\* Lines 98-100: progress_callback(0, total_slides), which may raise
ReportInitial ==
    /\ pc = "p_report_initial"
    /\ IF has_callback
       THEN \E raises \in BOOLEAN :
                /\ cb_last' = 0
                /\ IF raises
                   THEN p_result' = PRaised("progress_callback") /\ pc' = "p_raised"
                   ELSE pc' = "p_section" /\ UNCHANGED p_result
       ELSE pc' = "p_section" /\ UNCHANGED <<cb_last, p_result>>
    /\ UNCHANGED <<docVars, clientVars, has_callback, previous_context, key_concepts,
                   max_slides_per_section, max_total_slides, sections, section_idx,
                   slides_processed, simulation_active, o_attempt, section_info, stats,
                   threads>>

\* Lines 102-148: the head of the loop over the sections binds section_idx
\* and section; a section of more than 3 slides rebinds simulation_active and
\* starts its thread
SectionBegin ==
    /\ pc \in {"p_section", "p_next"}
    /\ LET idx == IF pc = "p_section" THEN 0 ELSE section_idx + 1
       IN /\ idx < Len(sections)
          /\ section_idx' = idx
          /\ IF has_callback /\ Len(sections[idx + 1]) > SIMULATION_MIN
             THEN /\ simulation_active' = TRUE
                  /\ threads' = [threads EXCEPT ![idx + 1] =
                                    [NoThread EXCEPT !.pc = "t_start"]]
             ELSE UNCHANGED <<simulation_active, threads>>
    /\ o_attempt' = 0
    /\ pc' = "o_call"
    /\ UNCHANGED <<docVars, clientVars, has_callback, previous_context, key_concepts,
                   max_slides_per_section, max_total_slides, sections, slides_processed,
                   section_info, stats, cb_last, p_result>>

\* Lines 281-286: one attempt calls self.llm_service.regenerate_content
OrchCall ==
    /\ pc = "o_call"
    /\ c_content' = SectionSlides(content_map, Section)
    /\ c_caller' = "orchestrator"
    /\ c_context' = previous_context
    /\ c_concepts' = key_concepts
    /\ c_result' = NoResult
    /\ pc' = "c_enter"
    /\ UNCHANGED <<docVars, orchVars, api_key, content_batches, batch_idx, attempt,
                   regenerated_content, c_blocks, c_requests, c_last, service, remote_called>>

\* An orchestrator whose attempts have no except clause
OrchHandlerCatchesNothing(exc) == FALSE

\* except Exception as e (line 322)
OrchHandlerCatches(exc) == TRUE

\* A record that keeps one change per regenerated text, padded where the
\* slide has no original left
BeforeAfterPadded(slide, regenerated_texts) ==
    [slide_number |-> slide.slide_number,
     changes |-> [j \in 1..Len(regenerated_texts) |->
                    [before |-> IF j <= Len(slide.texts) THEN slide.texts[j] ELSE <<>>,
                     after |-> regenerated_texts[j]]],
     error |-> ""]

\* before_after of one slide (lines 298-314): zip drops what has no partner
BeforeAfter(slide, regenerated_texts) ==
    [slide_number |-> slide.slide_number,
     changes |-> [j \in 1..Min(Len(slide.texts), Len(regenerated_texts)) |->
                    [before |-> slide.texts[j], after |-> regenerated_texts[j]]],
     error |-> ""]

\* An orchestrator that leaves the slide's own texts in place of the entry's
EnrichedWithOwnTexts(slide, entry) ==
    [slide EXCEPT !.has_regenerated_texts = TRUE,
                  !.regenerated_texts = slide.texts,
                  !.has_before_after = TRUE,
                  !.before_after = BeforeAfter(slide, slide.texts)]

\* An orchestrator that writes the entry's texts over the slide's own
EnrichedOverTexts(slide, entry) ==
    [slide EXCEPT !.texts = entry.texts,
                  !.has_regenerated_texts = TRUE,
                  !.regenerated_texts = entry.texts,
                  !.has_before_after = TRUE,
                  !.before_after = BeforeAfter(slide, entry.texts)]

\* Lines 304-318 for one slide and the entry at its position
Enriched(slide, entry) ==
    [slide EXCEPT !.has_regenerated_texts = TRUE,
                  !.regenerated_texts = entry.texts,
                  !.has_before_after = TRUE,
                  !.before_after = BeforeAfter(slide, entry.texts)]

\* The first position whose entry has no .get (is no dict), 0 if there is none
FirstNonDict(value) ==
    IF \A i \in 1..Len(value) : value[i].is_dict THEN 0
    ELSE CHOOSE i \in 1..Len(value) :
            /\ ~value[i].is_dict
            /\ \A j \in 1..(i - 1) : value[j].is_dict

\* The slides of the section enriched up to position upto (lines 296-318)
EnrichUpTo(map, sec, value, upto) ==
    [map EXCEPT !.slides =
        [n \in 1..Len(map.slides) |->
            IF \E i \in 1..upto : sec[i] = n
            THEN Enriched(map.slides[n], value[CHOOSE i \in 1..upto : sec[i] = n])
            ELSE map.slides[n]]]

\* A fallback that leaves the texts as they are, without the marker
FallbackSlideUnmarked(slide) ==
    [slide EXCEPT !.has_regenerated_texts = TRUE,
                  !.regenerated_texts = slide.texts,
                  !.has_before_after = TRUE,
                  !.before_after = [slide_number |-> slide.slide_number, changes |-> <<>>,
                                    error |-> "Max retries exceeded"]]

\* fallback_section (lines 330-341)
FallbackSlide(slide) ==
    [slide EXCEPT !.has_regenerated_texts = TRUE,
                  !.regenerated_texts =
                      [j \in 1..Len(slide.texts) |-> Prefixed(REGENERATION_FAILED, slide.texts[j])],
                  !.has_before_after = TRUE,
                  !.before_after = [slide_number |-> slide.slide_number, changes |-> <<>>,
                                    error |-> "Max retries exceeded"]]

\* Lines 288-343: validate what the client returned, enrich the section's
\* slides, and on an exception back off and try again or fall back
OrchReturned ==
    /\ pc = "o_returned"
    /\ LET value == c_result.value
           valid == /\ c_result.state = "returned"
                    /\ value # <<>>
                    /\ Len(value) = Len(Section)
           bad == IF valid THEN FirstNonDict(value) ELSE 0
           upto == IF ~valid THEN 0 ELSE IF bad = 0 THEN Len(Section) ELSE bad - 1
           exc == IF c_result.state = "raised" \/ ~valid THEN "ValueError"
                  ELSE IF bad # 0 THEN "AttributeError" ELSE ""
           map == EnrichUpTo(content_map, Section, value, upto)
       IN /\ content_map' = map
          /\ IF exc = ""
             THEN /\ section_info' = [kind |-> "section", slides |-> <<>>]
                  /\ pc' = "p_finally"
                  /\ UNCHANGED <<o_attempt, p_result>>
             ELSE IF ~OrchHandlerCatches(exc)
             THEN /\ p_result' = PRaised("regenerate_content")
                  /\ pc' = "p_raised"
                  /\ UNCHANGED <<o_attempt, section_info>>
             ELSE IF o_attempt < ORCH_MAX_RETRIES - 1
             THEN /\ o_attempt' = o_attempt + 1
                  /\ pc' = "o_call"
                  /\ UNCHANGED <<section_info, p_result>>
             ELSE /\ section_info' =
                        [kind |-> "fallback",
                         slides |-> [i \in 1..Len(Section) |->
                                        FallbackSlide(map.slides[Section[i]])]]
                  /\ o_attempt' = o_attempt + 1
                  /\ pc' = "p_finally"
                  /\ UNCHANGED p_result
    /\ UNCHANGED <<doc, presentation_info, out_doc, reread_map, w_result, clientVars,
                   has_callback, previous_context, key_concepts, max_slides_per_section,
                   max_total_slides, sections, section_idx, slides_processed,
                   simulation_active, stats, cb_last, threads>>

\* Lines 159-161: finally: simulation_active['active'] = False
StopSimulation ==
    /\ pc = "p_finally"
    /\ simulation_active' =
          IF has_callback /\ Len(Section) > SIMULATION_MIN THEN FALSE ELSE simulation_active
    /\ pc' = "p_count"
    /\ UNCHANGED <<docVars, clientVars, has_callback, previous_context, key_concepts,
                   max_slides_per_section, max_total_slides, sections, section_idx,
                   slides_processed, o_attempt, section_info, stats, cb_last, p_result,
                   threads>>

\* Line 173: slides_processed += len(section)
CountSection ==
    /\ pc = "p_count"
    /\ slides_processed' = slides_processed + Len(Section)
    /\ pc' = "p_report"
    /\ UNCHANGED <<docVars, clientVars, has_callback, previous_context, key_concepts,
                   max_slides_per_section, max_total_slides, sections, section_idx,
                   simulation_active, o_attempt, section_info, stats, cb_last, p_result,
                   threads>>

\* Lines 176-177: progress_callback(slides_processed, total_slides), which may raise
ReportSection ==
    /\ pc = "p_report"
    /\ IF has_callback
       THEN \E raises \in BOOLEAN :
                /\ cb_last' = slides_processed
                /\ IF raises
                   THEN p_result' = PRaised("progress_callback") /\ pc' = "p_raised"
                   ELSE pc' = "p_merge" /\ UNCHANGED p_result
       ELSE pc' = "p_merge" /\ UNCHANGED <<cb_last, p_result>>
    /\ UNCHANGED <<docVars, clientVars, has_callback, previous_context, key_concepts,
                   max_slides_per_section, max_total_slides, sections, section_idx,
                   slides_processed, simulation_active, o_attempt, section_info, stats,
                   threads>>

\* section_info[slide_idx] (line 186): the section's own dicts, or the fallback's
\* A merge that reads the section's slides where the attempts left them
InfoSlideInPlace(map, i) == map.slides[Section[i]]

InfoSlide(map, i) ==
    IF section_info.kind = "fallback" THEN section_info.slides[i]
    ELSE map.slides[Section[i]]

\* The first slide of the content map with that slide number (lines 183-184)
FindSlide(map, slide_number) ==
    CHOOSE n \in 1..Len(map.slides) :
        /\ map.slides[n].slide_number = slide_number
        /\ \A j \in 1..(n - 1) : map.slides[j].slide_number # slide_number

\* Lines 180-198 for the section's slides from position i on
RECURSIVE MergeFrom(_, _)
MergeFrom(map, i) ==
    IF i > Len(Section) THEN map
    ELSE LET info == InfoSlide(map, i)
             n == FindSlide(map, map.slides[Section[i]].slide_number)
             texts == IF info.has_regenerated_texts THEN info.regenerated_texts
                      ELSE [j \in 1..Len(info.texts) |->
                                Prefixed(REGENERATION_FAILED, info.texts[j])]
         IN MergeFrom(
                [map EXCEPT !.slides[n] =
                    [@ EXCEPT !.has_regenerated_texts = TRUE,
                              !.regenerated_texts = texts,
                              !.has_before_after = @ \/ info.has_before_after,
                              !.before_after = IF info.has_before_after
                                               THEN info.before_after ELSE @]],
                i + 1)

\* " ".join(texts) raises TypeError when an item of texts is no str
JoinRaises(texts) == \E j \in 1..Len(texts) : ~IsString(texts[j])

\* summarize_section_content(section_info) and extract_key_concepts(section_info)
\* join each slide's regenerated_texts, or its texts when it has none
\* (utils.py 49-56, 82-89)
SummarizeRaises(info) ==
    \E i \in 1..Len(info) :
        JoinRaises(IF info[i].has_regenerated_texts THEN info[i].regenerated_texts
                   ELSE info[i].texts)

\* The texts utils.py reads of a slide: its regenerated_texts, or its texts
\* when it has none (utils.py 49-52, 82-85)
TextsRead(slide) ==
    IF slide.has_regenerated_texts THEN slide.regenerated_texts ELSE slide.texts

\* full_text of utils.py 45-56 and 79-96: the slides' texts joined, slide
\* after slide, as a sequence of pieces
FullText(info) == ConcatAll(ConcatAll([i \in 1..Len(info) |-> TextsRead(info[i])]))

\* len(full_text) > max_length (utils.py:66): "big" and "huge" stand for texts
\* of more than 500 characters, the other pieces for a few characters each
TooLong(full_text) == \E i \in 1..Len(full_text) : full_text[i] \in {"big", "huge"}

\* summarize_section_content (utils.py 38-69): the text, cut at 500 characters
SummarizeSectionContent(info) ==
    LET full_text == FullText(info)
    IN IF TooLong(full_text) THEN <<"<first 500 characters>", "...">> ELSE full_text

\* The capitalized phrases of more than 5 characters that the regular
\* expression of utils.py:99 finds: "a", "b" and "g" stand for texts that are
\* such a phrase, the markers and the other pieces hold none
ExtractKeyConcepts(info) == Range(FullText(info)) \cap {"a", "b", "g"}

\* An accumulation that keeps only the concepts of the latest section
UpdatedConceptsLatestOnly(concepts, info) == ExtractKeyConcepts(info)

\* previous_context += f"\nSection {section_idx + 1} Summary: {context_update}"
\* (lines 201-202)
UpdatedContext(context, idx, info) ==
    Append(context, [section |-> idx + 1, summary |-> SummarizeSectionContent(info)])

\* key_concepts.update(extract_key_concepts(section_info)) (lines 205-206)
UpdatedConcepts(concepts, info) == concepts \cup ExtractKeyConcepts(info)

\* Lines 179-216: merge the section into the content map and the stats, then
\* summarize it and extract its key concepts, outside any try
MergeSection ==
    /\ pc = "p_merge"
    /\ LET map == MergeFrom(content_map, 1)
       IN /\ content_map' = map
          /\ stats' = [stats EXCEPT !.before_after =
                @ \o SelectSeq([i \in 1..Len(Section) |-> InfoSlide(map, i).before_after],
                               LAMBDA b : b # NoBeforeAfter)]
          /\ LET info == [i \in 1..Len(Section) |-> InfoSlide(map, i)]
             IN IF SummarizeRaises(info)
                THEN /\ p_result' = PRaised("summarize_section_content")
                     /\ pc' = "p_raised"
                     /\ UNCHANGED <<previous_context, key_concepts>>
                ELSE /\ previous_context' = UpdatedContext(previous_context, section_idx, info)
                     /\ key_concepts' = UpdatedConcepts(key_concepts, info)
                     /\ pc' = "p_next"
                     /\ UNCHANGED p_result
    /\ UNCHANGED <<doc, presentation_info, out_doc, reread_map, w_result, clientVars,
                   has_callback, max_slides_per_section, max_total_slides, sections,
                   section_idx, slides_processed, simulation_active, o_attempt, section_info,
                   cb_last, threads>>

\* Lines 218-229: the Writer, the final statistics, the return
WriteAndReturn ==
    /\ \/ pc = "p_section" /\ Len(sections) = 0
       \/ pc = "p_next" /\ section_idx + 1 = Len(sections)
    /\ \E io \in WriterOutcomes :
          LET w == ModifyPpt(doc, content_map, io, out_doc)
          IN /\ out_doc' = w.file
             /\ w_result' = Written(w)
             /\ stats' = [stats EXCEPT !.has_success = TRUE, !.success = w.success,
                                       !.key_concepts = key_concepts]
    /\ p_result' = [state |-> "returned", by |-> ""]
    /\ pc' = "p_done"
    /\ UNCHANGED <<doc, presentation_info, content_map, reread_map, clientVars,
                   has_callback, previous_context, key_concepts, max_slides_per_section,
                   max_total_slides, sections, section_idx, slides_processed,
                   simulation_active, o_attempt, section_info, cb_last, threads>>

(* simulate_progress (lines 119-143), the thread of section k.  Its free    *)
(* names slides_processed, section and simulation_active are those of the   *)
(* enclosing call: it reads what they hold when it gets to run.             *)

\* Lines 121-123
ThreadStart(k) ==
    /\ threads[k].pc = "t_start"
    /\ threads' = [threads EXCEPT ![k] =
          [pc |-> "t_check", i |-> 1, start_slide |-> slides_processed,
           num_slides |-> Len(Section)]]
    /\ UNCHANGED <<pc, docVars, clientVars, has_callback, previous_context, key_concepts,
                   max_slides_per_section, max_total_slides, sections, section_idx,
                   slides_processed, simulation_active, o_attempt, section_info, stats,
                   cb_last, p_result>>

\* Lines 127-129: the loop test and the test of simulation_active['active']
ThreadCheck(k) ==
    /\ threads[k].pc = "t_check"
    /\ threads' = [threads EXCEPT ![k].pc =
          IF threads[k].i < threads[k].num_slides /\ simulation_active
          THEN "t_sleep" ELSE "t_done"]
    /\ UNCHANGED <<pc, docVars, clientVars, has_callback, previous_context, key_concepts,
                   max_slides_per_section, max_total_slides, sections, section_idx,
                   slides_processed, simulation_active, o_attempt, section_info, stats,
                   cb_last, p_result>>

\* int(start_slide + i * 0.8)
PartialProgress(t) == t.start_slide + ((t.i * 8) \div 10)

\* Lines 131-140: after the sleep, the tick; what the callback raises is swallowed
ThreadTick(k) ==
    /\ threads[k].pc = "t_sleep"
    /\ cb_last' = PartialProgress(threads[k])
    /\ threads' = [threads EXCEPT ![k].pc = "t_check", ![k].i = @ + 1]
    /\ UNCHANGED <<pc, docVars, clientVars, has_callback, previous_context, key_concepts,
                   max_slides_per_section, max_total_slides, sections, section_idx,
                   slides_processed, simulation_active, o_attempt, section_info, stats,
                   p_result>>

----------------------------------------------------------------------------
(* Documents *)

MaxSlides == 2

TA == <<"a">>
TB == <<"b">>
TG == <<"g">>
TBlank == <<" ">>

\* One text box holding one run
SlideOne == <<TextShape(<< <<TA>> >>)>>
\* A picture, then a text box of two paragraphs, the first with a blank run
SlideTwoParas == <<Picture, TextShape(<< <<TA, TBlank>>, <<TB>> >>)>>
\* A grouped text box before an ungrouped one
SlideGroupFirst == <<GroupShape(<<TextShape(<< <<TG>> >>)>>), TextShape(<< <<TA>> >>)>>
\* An ungrouped text box before a grouped one
SlideGroupLast == <<TextShape(<< <<TB>> >>), GroupShape(<<TextShape(<< <<TG>> >>)>>)>>
\* A group of two text boxes and a nested group
SlideGroupTwo ==
    <<GroupShape(<<TextShape(<< <<TG>> >>), Picture,
                   GroupShape(<<TextShape(<< <<TA>> >>)>>)>>)>>
\* Two text boxes, of one run and of two
SlideTwoBoxes == <<TextShape(<< <<TA>> >>), TextShape(<< <<TA, TB>> >>)>>
\* A text box whose only run is blank, and a slide without shapes
SlideBlank == <<TextShape(<< <<TBlank>> >>)>>
SlideEmpty == <<>>

SlideChoices ==
    {SlideOne, SlideTwoParas, SlideTwoBoxes, SlideGroupFirst, SlideGroupLast,
     SlideGroupTwo, SlideBlank, SlideEmpty}

Docs == SeqUpTo(SlideChoices, MaxSlides)

----------------------------------------------------------------------------
(* The read / map / write / read-again scenario on one document *)


\* What a caller puts into a slide's regenerated_texts before the Writer runs
Regenerated(slide, how) ==
    CASE how = "same" -> slide.texts
      [] how = "rewritten" -> [i \in 1..Len(slide.texts) |-> Rewritten(slide.texts[i])]
      [] how = "short" -> SubSeq(slide.texts, 1, Len(slide.texts) - 1)
      [] how = "numbers" -> [i \in 1..Len(slide.texts) |-> NotAString]
      [] OTHER -> <<>>

DocInit ==
    /\ doc \in Docs
    /\ pc = "d_start"
    /\ presentation_info = NoInfo
    /\ content_map = NoMap
    /\ out_doc = NoFile
    /\ reread_map = NoMap
    /\ w_result = NoWrite
    /\ ClientIdle
    /\ OrchIdle

DocRead ==
    /\ pc = "d_start"
    /\ presentation_info' = ReadPpt(doc)
    /\ pc' = "d_read"
    /\ UNCHANGED <<doc, content_map, out_doc, reread_map, w_result, clientVars, orchVars>>

DocExtract ==
    /\ pc = "d_read"
    /\ content_map' = ExtractContentWithMapping(presentation_info)
    /\ pc' = "d_mapped"
    /\ UNCHANGED <<doc, presentation_info, out_doc, reread_map, w_result, clientVars, orchVars>>

DocAttach ==
    /\ pc = "d_mapped"
    /\ \E how \in {"same", "rewritten", "short", "numbers", "absent"} :
        /\ content_map' = [content_map EXCEPT !.slides =
                [i \in 1..Len(content_map.slides) |->
                    [content_map.slides[i] EXCEPT
                        !.has_regenerated_texts = (how # "absent"),
                        !.regenerated_texts = Regenerated(content_map.slides[i], how)]]]
        /\ pc' = IF how = "same" THEN "d_same" ELSE "d_attached"
    /\ UNCHANGED <<doc, presentation_info, out_doc, reread_map, w_result, clientVars, orchVars>>

\* The file at input_path as someone else left it after it was mapped
Edited(d, how) ==
    CASE how = "drop_slide" -> SubSeq(d, 1, Len(d) - 1)
      [] how = "drop_shape" ->
            [i \in 1..Len(d) |-> SubSeq(d[i], 1, Len(d[i]) - 1)]
      [] how = "drop_para" ->
            [i \in 1..Len(d) |-> [j \in 1..Len(d[i]) |->
                [d[i][j] EXCEPT !.paras = SubSeq(@, 1, Len(@) - 1)]]]
      [] OTHER ->
            [i \in 1..Len(d) |-> [j \in 1..Len(d[i]) |->
                [d[i][j] EXCEPT !.paras =
                    [p \in 1..Len(@) |-> SubSeq(@[p], 1, Len(@[p]) - 1)]]]]

\* The input file changes between the mapping and the writing
DocEdit ==
    /\ pc = "d_attached"
    /\ \E how \in {"drop_slide", "drop_shape", "drop_para", "drop_run"} :
          /\ Edited(doc, how) # doc
          /\ doc' = Edited(doc, how)
    /\ pc' = "d_stale"
    /\ UNCHANGED <<presentation_info, content_map, out_doc, reread_map, w_result,
                   clientVars, orchVars>>

DocModify ==
    /\ pc \in {"d_same", "d_attached", "d_stale"}
    /\ \E io \in WriterOutcomes :
          LET w == ModifyPpt(doc, content_map, io, out_doc)
          IN /\ out_doc' = w.file
             /\ w_result' = Written(w)
             /\ pc' = CASE ~w.success -> "d_write_failed"
                        [] pc = "d_same" -> "d_same_written"
                        [] pc = "d_attached" -> "d_written"
                        [] OTHER -> "d_stale_written"
    /\ UNCHANGED <<doc, presentation_info, content_map, reread_map, clientVars, orchVars>>

DocReread ==
    /\ pc \in {"d_same_written", "d_written"}
    /\ reread_map' = ExtractContentWithMapping(ReadPpt(out_doc.slides))
    /\ pc' = IF pc = "d_same_written" THEN "d_same_reread" ELSE "d_reread"
    /\ UNCHANGED <<doc, presentation_info, content_map, out_doc, w_result, clientVars,
                   orchVars>>

DocNext == DocRead \/ DocExtract \/ DocAttach \/ DocEdit \/ DocModify \/ DocReread

SpecDoc == DocInit /\ [][DocNext]_vars

----------------------------------------------------------------------------
(* Direct calls of LLMService.regenerate_content *)

MaxSectionLen == 3

TBig == <<"big">>
THuge == <<"huge">>

TextsChoices == {<<TA>>, <<TA, TB>>, <<TBig>>}

\* The sections of n slides numbered first, first + 1, ...
SectionsOf(n, first) ==
    {[i \in 1..n |->
        [slide_number |-> first + i - 1, texts |-> f[i]]] : f \in [1..n -> TextsChoices]}

ClientInit ==
    /\ pc = "c_enter"
    /\ doc = <<>>
    /\ presentation_info = NoInfo
    /\ content_map = NoMap
    /\ out_doc = NoFile
    /\ reread_map = NoMap
    /\ w_result = NoWrite
    /\ api_key \in BOOLEAN
    /\ c_caller = "test"
    /\ c_content \in UNION {SectionsOf(n, 1) : n \in 0..MaxSectionLen}
    /\ content_batches = <<>>
    /\ batch_idx = 0
    /\ attempt = 0
    /\ regenerated_content = <<>>
    /\ c_blocks = <<>>
    /\ c_requests = 0
    /\ c_last = ""
    /\ c_context = <<>>
    /\ c_concepts = {}
    /\ c_result = NoResult
    /\ service = OutcomeNames
    /\ remote_called = FALSE
    /\ OrchIdle

ClientNext == ClientEnter \/ ClientRequest

SpecClient == ClientInit /\ [][ClientNext]_vars

----------------------------------------------------------------------------
(* process_presentation on small documents: no section is long enough for a *)
(* simulate_progress thread                                                 *)

MaxPipelineSlides == 2
MaxPerSection == 2

PipelineDocs == SeqUpTo({SlideOne, SlideTwoParas, SlideGroupFirst}, MaxPipelineSlides)

\* What the remote service shows in one run
PipelineServices ==
    {{"good"}, {"status"},
     {"good", "short", "long"},
     {"good", "reversed", "renumbered", "fewer_texts"},
     {"good", "fewer_texts", "more_texts"},
     {"good", "status", "timeout"},
     {"unparsed", "fenced", "good"},
     {"good", "number_texts"},
     {"good", "last_not_dict"}}

ProcessInit(docs, sizes, limits, callbacks, keys, services) ==
    /\ pc = "p_start"
    /\ doc \in docs
    /\ presentation_info = NoInfo
    /\ content_map = NoMap
    /\ out_doc = NoFile
    /\ reread_map = NoMap
    /\ w_result = NoWrite
    /\ api_key \in keys
    /\ c_caller = "orchestrator"
    /\ c_content = <<>>
    /\ content_batches = <<>>
    /\ batch_idx = 0
    /\ attempt = 0
    /\ regenerated_content = <<>>
    /\ c_blocks = <<>>
    /\ c_requests = 0
    /\ c_last = ""
    /\ c_context = <<>>
    /\ c_concepts = {}
    /\ c_result = NoResult
    /\ service \in services
    /\ remote_called = FALSE
    /\ has_callback \in callbacks
    /\ max_slides_per_section \in sizes
    /\ max_total_slides \in limits
    /\ sections = <<>>
    /\ section_idx = 0
    /\ slides_processed = 0
    /\ simulation_active = FALSE
    /\ o_attempt = 0
    /\ section_info = NoSectionInfo
    /\ previous_context = <<>>
    /\ key_concepts = {}
    /\ stats = NoStats
    /\ cb_last = -1
    /\ p_result = PNone
    /\ threads = <<>>

Init ==
    ProcessInit(PipelineDocs, (-1)..MaxPerSection, {1, MAX_TOTAL_SLIDES}, BOOLEAN,
                BOOLEAN, PipelineServices)

MainLine ==
    \/ ProcessStart
    \/ ReportInitial
    \/ SectionBegin
    \/ OrchCall
    \/ ClientEnter
    \/ ClientRequest
    \/ OrchReturned
    \/ StopSimulation
    \/ CountSection
    \/ ReportSection
    \/ MergeSection
    \/ WriteAndReturn

Next == MainLine

Spec == Init /\ [][Next]_vars

----------------------------------------------------------------------------
(* process_presentation with simulate_progress threads: sections of more    *)
(* than 3 slides and a progress callback                                    *)

ProgressSectionSize == 4
MaxProgressSections == 2

ProgressDocs ==
    {[i \in 1..n |-> SlideOne] :
        n \in (ProgressSectionSize - 1)..(ProgressSectionSize * MaxProgressSections)}

ProgressInit ==
    ProcessInit(ProgressDocs, {ProgressSectionSize}, {MAX_TOTAL_SLIDES}, {TRUE},
                {TRUE}, {{"good"}, {"status"}})

ProgressNext ==
    \/ MainLine
    \/ \E k \in 1..Len(threads) : ThreadStart(k)
    \/ \E k \in 1..Len(threads) : ThreadCheck(k)
    \/ \E k \in 1..Len(threads) : ThreadTick(k)

SpecProgress == ProgressInit /\ [][ProgressNext]_vars

----------------------------------------------------------------------------
(* The two splitters on their own: a list of slides and a positive size     *)

MaxSplitSlides == 5
MaxSplitSize == 6

SplitInit ==
    /\ pc = "s_start"
    /\ doc = <<>>
    /\ presentation_info = NoInfo
    /\ \E slides \in SeqUpTo({"s", "t"}, MaxSplitSlides) :
          content_map = [slide_count |-> Len(slides), slides |-> slides, warnings |-> <<>>]
    /\ out_doc = NoFile
    /\ reread_map = NoMap
    /\ w_result = NoWrite
    /\ ClientIdle
    /\ has_callback = FALSE
    /\ max_slides_per_section \in 1..MaxSplitSize
    /\ max_total_slides = MAX_TOTAL_SLIDES
    /\ sections = <<>>
    /\ section_idx = 0
    /\ slides_processed = 0
    /\ simulation_active = FALSE
    /\ o_attempt = 0
    /\ section_info = NoSectionInfo
    /\ previous_context = <<>>
    /\ key_concepts = {}
    /\ stats = NoStats
    /\ cb_last = -1
    /\ p_result = PNone
    /\ threads = <<>>

SplitUnchanged ==
    UNCHANGED <<docVars, clientVars, has_callback, previous_context, key_concepts,
                max_slides_per_section, max_total_slides, section_idx, slides_processed,
                simulation_active, o_attempt, section_info, stats, cb_last, p_result,
                threads>>

\* PPTProcessor._split_presentation_into_sections(slides, max_slides_per_section)
SplitByProcessor ==
    /\ pc = "s_start"
    /\ sections' = SplitPresentationIntoSections(content_map.slides, max_slides_per_section)
    /\ pc' = "s_processor"
    /\ SplitUnchanged

\* utils.split_into_sections(slides, max_slides_per_section)
SplitByUtils ==
    /\ pc = "s_start"
    /\ sections' = SplitIntoSections(content_map.slides, max_slides_per_section)
    /\ pc' = "s_utils"
    /\ SplitUnchanged

SplitNext == SplitByProcessor \/ SplitByUtils

SpecSplit == SplitInit /\ [][SplitNext]_vars

----------------------------------------------------------------------------
\* Every array the service answered with, and the client accepted, holds one
\* entry per slide of its sub-batch
AcceptedCountsRight ==
    \A b \in 1..Len(c_blocks) :
        c_blocks[b].end = "response" =>
            Len(c_blocks[b].entries) = Len(content_batches[b])

\* ... and each of those entries is a dict with as many texts as its slide
AcceptedTextsRight ==
    \A b \in 1..Len(c_blocks) :
        c_blocks[b].end = "response" =>
            /\ Len(c_blocks[b].entries) = Len(content_batches[b])
            /\ \A i \in 1..Len(c_blocks[b].entries) :
                  /\ c_blocks[b].entries[i].is_dict
                  /\ Len(c_blocks[b].entries[i].texts) = Len(content_batches[b][i].texts)

(* C1, as claimed: whatever the remote service does, the returned list has *)
(* exactly as many entries as the input section has slides.                *)
C1_ReturnedLengthAlways ==
    c_result.state = "returned" /\ c_caller = "test" =>
        Len(c_result.value) = Len(c_content)

(* C1, amended: for any mix of transport failures, statuses and unparseable *)
(* bodies across sub-batches and attempts, the returned list has as many    *)
(* entries as the section has slides, provided every array the client       *)
(* accepted holds one entry per slide of its sub-batch.                     *)
C1_ReturnedLength ==
    c_result.state = "returned" /\ c_caller = "test" /\ AcceptedCountsRight =>
        Len(c_result.value) = Len(c_content)

\* A call over two sub-batches returned after one ended in its placeholder
\* and the other in an accepted array
C1_Witness ==
    /\ c_result.state = "returned" /\ c_caller = "test" /\ AcceptedCountsRight
    /\ Len(c_blocks) = 2
    /\ c_blocks[1].end = "placeholder" /\ c_blocks[1].requests = MAX_RETRIES
    /\ c_blocks[2].end = "response"

\* The returned entry at each position has as many texts as the slide there
TextsLengthsMatch ==
    /\ Len(c_result.value) = Len(c_content)
    /\ \A i \in 1..Len(c_result.value) :
          Len(c_result.value[i].texts) = Len(c_content[i].texts)

(* C2, as claimed: whatever the remote service does, each returned entry's *)
(* texts has the length of the texts of the input slide at its position.   *)
C2_TextsLengthAlways ==
    c_result.state = "returned" /\ c_caller = "test" => TextsLengthsMatch

(* C2, amended: each returned entry's texts has the length of the texts of *)
(* the input slide at its position, whatever fails, provided every array   *)
(* the client accepted holds one dict per slide of its sub-batch with as   *)
(* many texts as that slide; the client's own placeholder entries always   *)
(* have as many texts as their slide.                                      *)
C2_TextsLength ==
    c_result.state = "returned" /\ c_caller = "test" /\ AcceptedTextsRight =>
        TextsLengthsMatch

\* A call returned a placeholder entry for a slide of two texts
C2_Witness ==
    /\ c_result.state = "returned" /\ c_caller = "test" /\ AcceptedTextsRight
    /\ \E b \in 1..Len(c_blocks) : c_blocks[b].end = "placeholder"
    /\ \E i \in 1..Len(c_content) : Len(c_content[i].texts) = 2

(* C4: with an API key, regenerate_content never raises to its caller.     *)
C4_NeverRaisesWithKey ==
    api_key => c_result.state # "raised"

\* With a key, a call ended in the fallback of the whole operation, and
\* another in a placeholder block after an error that is no connection error
C4_Witness ==
    /\ api_key /\ c_caller = "test" /\ c_result.state = "returned"
    /\ c_result.final
    /\ c_content # <<>>

----------------------------------------------------------------------------
(* C5: in every slide of the Content Mapping, texts and text_mappings have *)
(* the same length and texts[i] is the text of text_mappings[i].           *)
C5_TextsAlignedWithMappings ==
    pc # "d_start" /\ pc # "d_read" =>
        \A s \in 1..Len(content_map.slides) :
            LET slide == content_map.slides[s]
            IN /\ Len(slide.texts) = Len(slide.text_mappings)
               /\ \A i \in 1..Len(slide.texts) : slide.texts[i] = slide.text_mappings[i].text

(* C6: after writing regenerated_texts = texts, every run the original     *)
(* Content Mapping addresses is read back with the same text at the same   *)
(* (slide, shape, paragraph, run) address.                                 *)
C6_RoundTripSame ==
    pc = "d_same_reread" =>
        /\ Len(reread_map.slides) = Len(content_map.slides)
        /\ \A s \in 1..Len(content_map.slides) :
              \A k \in 1..Len(content_map.slides[s].text_mappings) :
                 content_map.slides[s].text_mappings[k]
                    \in Range(reread_map.slides[s].text_mappings)

----------------------------------------------------------------------------
(* C3: the texts attached to slide i of a section as regenerated_texts come *)
(* from a returned entry whose slide_number is slide i's slide_number.      *)
C3_AttachedFromOwnEntry ==
    (pc = "p_finally" /\ section_info.kind = "section") =>
        \A i \in 1..Len(Section) :
            /\ content_map.slides[Section[i]].regenerated_texts = c_result.value[i].texts
            /\ c_result.value[i].slide_number = content_map.slides[Section[i]].slide_number

----------------------------------------------------------------------------
\* process_presentation has neither returned nor raised
Running == pc \notin {"p_done", "p_raised"}

(* C7: taking the invocations of progress_callback during one call of       *)
(* process_presentation in the order they occur, from the main line and     *)
(* from the simulate_progress threads alike, current never decreases and    *)
(* never exceeds total.                                                     *)
C7_ProgressMonotone ==
    [][Running => /\ cb_last' >= cb_last
                  /\ cb_last' <= Len(doc)]_vars

\* The thread of section k invokes progress_callback in this step
Ticks(k) == threads[k].pc = "t_sleep" /\ threads'[k].pc = "t_check"

\* The main line is inside _process_section_with_retry for section k
InRewriteCall(k) ==
    /\ section_idx + 1 = k
    /\ pc \in {"o_call", "c_enter", "c_request", "o_returned"}

\* The number of slides processed up to the end of section k
EndOfSection(k) == Min(k * max_slides_per_section, Len(doc))

(* C8: the simulate_progress thread of a section is confined to it: it      *)
(* invokes progress_callback only while the section's rewrite call has not  *)
(* returned, it has ended when the next section starts, and it never        *)
(* reports more than the slides processed up to the end of its section.     *)
C8_SimulationConfined ==
    /\ [](\A k \in 1..Len(threads) :
            section_idx + 1 > k => threads[k].pc \in {"none", "t_done"})
    /\ [][\A k \in 1..Len(threads) :
            Ticks(k) => InRewriteCall(k) /\ cb_last' <= EndOfSection(k)]_vars

(* C9: a progress_callback that raises never makes process_presentation     *)
(* raise: every section is still processed, the Writer runs, the result is  *)
(* returned.                                                                *)
C9_CallbackNeverFatal ==
    ~(p_result.state = "raised" /\ p_result.by = "progress_callback")

(* C10: without an API key, process_presentation on a document with slides  *)
(* raises at once: the rewrite call is not tried again, no section gets the *)
(* failure-marker placeholders, the Writer does not run.                    *)
C10_MissingKeyFatal ==
    (~api_key /\ sections # <<>>) =>
        /\ o_attempt = 0
        /\ section_info.kind # "fallback"
        /\ ~out_doc.exists
        /\ p_result.state # "returned"

----------------------------------------------------------------------------
(* C11: without an API key, regenerate_content raises to its caller and     *)
(* sends no HTTP request, whatever the section.                             *)
C11_NoKeyRaisesBeforeRequest ==
    ~api_key =>
        /\ ~remote_called
        /\ pc # "c_request"
        /\ pc = "c_done" => c_result.state = "raised"

C11_Witness ==
    /\ ~api_key
    /\ pc = "c_done"
    /\ c_result.state = "raised"
    /\ Len(c_content) = MaxSectionLen

----------------------------------------------------------------------------
\* Nothing of the sections' processing has happened
NothingProcessed ==
    /\ sections = <<>>
    /\ ~remote_called
    /\ cb_last = -1
    /\ ~out_doc.exists

(* C12: a document of more than max_total_slides slides makes               *)
(* process_presentation raise before any section is processed: no remote    *)
(* call, no progress report, no output file; a document of exactly          *)
(* max_total_slides slides is accepted.                                     *)
C12_SlideLimit ==
    /\ Len(doc) > max_total_slides =>
          /\ pc \in {"p_start", "p_raised"}
          /\ NothingProcessed
          /\ pc = "p_raised" => p_result = PRaised("slide_limit")
    /\ Len(doc) <= max_total_slides => p_result # PRaised("slide_limit")

C12_Witness ==
    /\ Len(doc) = max_total_slides + 1
    /\ pc = "p_raised"
    /\ p_result = PRaised("slide_limit")

----------------------------------------------------------------------------
(* C13: a max_slides_per_section of 0 or less makes process_presentation    *)
(* raise before any section is processed: no remote call, no output file.   *)
C13_NonPositiveSizeRejected ==
    max_slides_per_section <= 0 =>
        /\ pc \in {"p_start", "p_raised"}
        /\ ~remote_called
        /\ ~out_doc.exists

----------------------------------------------------------------------------
(* C14: for a list of N >= 0 slides and a size M > 0, each splitter returns *)
(* sections that are non-empty, of at most M slides, all but the last of    *)
(* exactly M, and whose concatenation in order is the list (so their sizes  *)
(* sum to N).                                                               *)
C14_SplittersPartition ==
    pc \in {"s_processor", "s_utils"} =>
        /\ \A k \in 1..Len(sections) :
              /\ sections[k] # <<>>
              /\ Len(sections[k]) <= max_slides_per_section
              /\ k < Len(sections) => Len(sections[k]) = max_slides_per_section
        /\ ConcatAll(sections) = content_map.slides

C14_Witness ==
    /\ pc = "s_utils"
    /\ Len(sections) = 2
    /\ Len(sections[2]) < max_slides_per_section
    /\ Len(content_map.slides) = MaxSplitSlides

----------------------------------------------------------------------------
(* C15: with an API key, a positive section size and a document within the  *)
(* slide limit (and no progress callback that could raise),                 *)
(* process_presentation never raises, whatever the remote service answers.  *)
C15_NeverRaises ==
    (/\ api_key
     /\ max_slides_per_section > 0
     /\ Len(doc) <= max_total_slides
     /\ ~has_callback) => p_result.state # "raised"

----------------------------------------------------------------------------
\* Every slide's regenerated_texts is its texts, each prefixed with the marker
AllRegeneratedAsFailed ==
    \A i \in 1..Len(content_map.slides) :
        LET slide == content_map.slides[i]
        IN /\ slide.has_regenerated_texts
           /\ slide.regenerated_texts =
                 [j \in 1..Len(slide.texts) |-> Prefixed(REGENERATION_FAILED, slide.texts[j])]

\* Every run a Text Mapping entry addresses holds, in the output document,
\* the marker followed by the text it has in the input document
AllRunsMarked(marker) ==
    \A i \in 1..Len(content_map.slides) :
        \A k \in 1..Len(content_map.slides[i].text_mappings) :
            LET m == content_map.slides[i].text_mappings[k]
            IN RunAt(out_doc.slides[i], m) = Prefixed(marker, RunAt(doc[i], m))

(* C16: when every request is answered with HTTP 500, after                 *)
(* process_presentation every slide's regenerated_texts is its original     *)
(* texts each prefixed with the failure marker, the Writer has run and      *)
(* succeeded, and every addressable run of the output holds the             *)
(* marker-prefixed original text.                                           *)
C16_AllFailedStillWritten ==
    (pc = "p_done" /\ api_key /\ service = {"status"} /\ sections # <<>>
        /\ w_result.io = "ok") =>
        /\ AllRegeneratedAsFailed
        /\ out_doc.exists
        /\ stats.success
        /\ AllRunsMarked(REGENERATION_FAILED)

----------------------------------------------------------------------------
\* No group shape of the document holds text
NoGroupedText(d) ==
    \A i \in 1..Len(d) : \A j \in 1..Len(d[i]) : ~ProcessShape(d[i][j]).group_text_warning

\* The service rewrites every text t as Rewritten(t), entry by entry, and no
\* progress callback raised
ServiceRewritesAll ==
    /\ api_key
    /\ service = {"good"}
    /\ sections # <<>>
    /\ p_result # PRaised("progress_callback")

(* C17: when the service answers every sub-batch with the array of its      *)
(* slides' numbers and f(t) for each text t, in order, then on a document   *)
(* without grouped text process_presentation returns success, every         *)
(* addressable run of the output holds f(its original text), and each       *)
(* slide's Before/After record lists before t, after f(t) per text in order.*)
C17_RewrittenEndToEnd ==
    (ServiceRewritesAll /\ NoGroupedText(doc)) =>
        /\ p_result.state # "raised"
        /\ (pc = "p_done" /\ w_result.io = "ok") =>
              /\ stats.success
              /\ out_doc.exists
              /\ \A i \in 1..Len(content_map.slides) :
                    LET slide == content_map.slides[i]
                    IN /\ \A k \in 1..Len(slide.text_mappings) :
                             RunAt(out_doc.slides[i], slide.text_mappings[k]) =
                                Rewritten(RunAt(doc[i], slide.text_mappings[k]))
                       /\ slide.has_before_after
                       /\ slide.before_after.changes =
                             [j \in 1..Len(slide.texts) |->
                                [before |-> slide.texts[j], after |-> Rewritten(slide.texts[j])]]

C17_Witness ==
    /\ ServiceRewritesAll
    /\ pc = "p_done"
    /\ doc = <<SlideTwoParas, SlideOne>>
    /\ Len(sections) = 2
    /\ RunAt(out_doc.slides[1], content_map.slides[1].text_mappings[2]) = Rewritten(TB)

----------------------------------------------------------------------------
\* The texts of the runs with text below a shape of the document
RECURSIVE RunTextsBelow(_)
RunTextsBelow(shape) ==
    IF shape.kind = "group"
    THEN UNION {RunTextsBelow(shape.children[k]) : k \in 1..Len(shape.children)}
    ELSE UNION {{shape.paras[p][r] :
                    r \in {q \in 1..Len(shape.paras[p]) : ~Blank(shape.paras[p][q])}} :
                p \in 1..Len(shape.paras)}

(* C18: text found inside a group shape appears in the slide's texts, no    *)
(* Text Mapping entry addresses a group shape (nor, then, a run below it),  *)
(* and the group's shape record carries group_text_warning whenever a       *)
(* descendant contributed text.                                             *)
C18_GroupTextReadNotMapped ==
    pc = "d_mapped" =>
        \A i \in 1..Len(doc) :
            /\ \A k \in 1..Len(content_map.slides[i].text_mappings) :
                  /\ content_map.slides[i].text_mappings[k].shape_idx < Len(doc[i])
                  /\ doc[i][content_map.slides[i].text_mappings[k].shape_idx + 1].kind # "group"
            /\ \A j \in 1..Len(doc[i]) :
                  doc[i][j].kind = "group" =>
                     /\ RunTextsBelow(doc[i][j]) \subseteq Range(content_map.slides[i].texts)
                     /\ RunTextsBelow(doc[i][j]) # {} =>
                           presentation_info.slides[i].shapes[j].group_text_warning

C18_Witness ==
    /\ pc = "d_mapped"
    /\ doc = <<SlideGroupFirst>>
    /\ content_map.slides[1].texts = <<TG, TA>>
    /\ Len(content_map.slides[1].text_mappings) = 1
    /\ content_map.slides[1].text_mappings[1].shape_idx = 1
    /\ presentation_info.slides[1].shapes[1].group_text_warning

----------------------------------------------------------------------------
\* modify_ppt_with_mapping has returned
WriterDone == pc \in {"d_same_written", "d_written", "d_stale_written"}

\* The entries <<c, k>> of the Content Mapping (slide entry c, Text Mapping
\* entry k, both 1-based) that address run r of paragraph p of shape j of
\* slide s of the opened document (1-based positions)
Addressing(s, j, p, r) ==
    UNION {{<<c, k>> : k \in {n \in 1..Len(content_map.slides[c].text_mappings) :
                        LET m == content_map.slides[c].text_mappings[n]
                        IN m.shape_idx = j - 1 /\ m.para_idx = p - 1 /\ m.run_idx = r - 1}} :
           c \in {n \in 1..Len(content_map.slides) : content_map.slides[n].slide_number = s}}

\* What the run addressed by entry <<c, k>> must hold: regenerated_texts[k]
\* if there is one, else the placeholder prefix and the original text
Expected(ck, original) ==
    LET texts == content_map.slides[ck[1]].regenerated_texts
    IN IF ck[2] <= Len(texts) THEN texts[ck[2]] ELSE Prefixed(PLACEHOLDER, original)

(* C19: modify_ppt_with_mapping sets the run of every Text Mapping entry i  *)
(* whose address resolves in the opened document to regenerated_texts[i]    *)
(* when there is one and else to the placeholder prefix followed by the     *)
(* run's original text; a run no entry addresses keeps its text, and        *)
(* nothing but run texts changes.                                           *)
C19_WriterSetsAddressedRuns ==
    WriterDone =>
        /\ Len(out_doc.slides) = Len(doc)
        /\ \A s \in 1..Len(doc) :
              /\ Len(out_doc.slides[s]) = Len(doc[s])
              /\ \A j \in 1..Len(doc[s]) :
                    IF ~doc[s][j].hasTF THEN out_doc.slides[s][j] = doc[s][j]
                    ELSE /\ Len(out_doc.slides[s][j].paras) = Len(doc[s][j].paras)
                         /\ \A p \in 1..Len(doc[s][j].paras) :
                               /\ Len(out_doc.slides[s][j].paras[p]) = Len(doc[s][j].paras[p])
                               /\ \A r \in 1..Len(doc[s][j].paras[p]) :
                                     LET original == doc[s][j].paras[p][r]
                                         written == out_doc.slides[s][j].paras[p][r]
                                     IN IF Addressing(s, j, p, r) = {}
                                        THEN written = original
                                        ELSE \A ck \in Addressing(s, j, p, r) :
                                                written = Expected(ck, original)

C19_Witness ==
    /\ pc = "d_written"
    /\ doc = <<SlideTwoParas>>
    /\ content_map.slides[1].regenerated_texts = <<TA>>
    /\ out_doc.slides[1][2].paras = << <<TA, TBlank>>, <<Prefixed(PLACEHOLDER, TB)>> >>

----------------------------------------------------------------------------
\* The slide entries of the Content Mapping whose slide is not in the opened
\* document, and the Text Mapping entries of the others that address no run
StaleSlides ==
    {c \in 1..Len(content_map.slides) : content_map.slides[c].slide_number > Len(doc)}

StaleEntries ==
    UNION {{<<c, k>> : k \in {n \in 1..Len(content_map.slides[c].text_mappings) :
                LET m == content_map.slides[c].text_mappings[n]
                    slide == doc[content_map.slides[c].slide_number]
                IN \/ m.shape_idx >= Len(slide)
                   \/ ~slide[m.shape_idx + 1].hasTF
                   \/ m.para_idx >= Len(slide[m.shape_idx + 1].paras)
                   \/ m.run_idx >= Len(slide[m.shape_idx + 1].paras[m.para_idx + 1])}} :
           c \in (1..Len(content_map.slides)) \ StaleSlides}

(* C20: a Text Mapping entry whose slide, shape, paragraph or run index is  *)
(* out of range in the reopened document is recorded as an error and        *)
(* skipped; every other entry, of that slide and of the others, is still    *)
(* applied, the document is saved and the function returns true (the files  *)
(* open and save, the texts are strings).                                   *)
C20_StaleEntriesSkipped ==
    (/\ pc \in {"d_stale_written", "d_write_failed"}
     /\ w_result.io = "ok"
     /\ ~AssignRaises(doc, content_map)) =>
        /\ w_result.done /\ w_result.success
        /\ out_doc.exists
        /\ w_result.errors = Cardinality(StaleSlides) + Cardinality(StaleEntries)
        /\ \A c \in (1..Len(content_map.slides)) \ StaleSlides :
              \A k \in 1..Len(content_map.slides[c].text_mappings) :
                 <<c, k>> \notin StaleEntries =>
                    LET m == content_map.slides[c].text_mappings[k]
                        s == content_map.slides[c].slide_number
                    IN RunAt(out_doc.slides[s], m) = Expected(<<c, k>>, RunAt(doc[s], m))

C20_Witness ==
    /\ pc = "d_stale_written"
    /\ doc = <<<<TextShape(<< <<>> >>), TextShape(<< <<TA>> >>)>>>>
    /\ StaleEntries = {<<1, 1>>, <<1, 3>>}
    /\ w_result.errors = 2
    /\ w_result.success
    /\ out_doc.slides[1][2].paras[1][1] = Rewritten(TA)

----------------------------------------------------------------------------
\* A slide of the Content Mapping as a section that ran out of attempts
\* leaves it
FailedSlide(slide) ==
    /\ slide.has_regenerated_texts
    /\ slide.regenerated_texts =
          [j \in 1..Len(slide.texts) |-> Prefixed(REGENERATION_FAILED, slide.texts[j])]
    /\ slide.has_before_after
    /\ slide.before_after.changes = <<>>
    /\ slide.before_after.error # ""

(* C21: when the orchestrator runs out of attempts for a section, every     *)
(* slide of the section ends up in the Content Mapping with its texts each  *)
(* prefixed with the failure marker as regenerated_texts and a Before/After *)
(* record of no changes and an error reason; the section does not abort the *)
(* call: the other sections are processed and the Writer runs.              *)
C21_ExhaustedSectionDegraded ==
    /\ (pc = "p_next" /\ section_info.kind = "fallback") =>
          \A i \in 1..Len(Section) : FailedSlide(content_map.slides[Section[i]])
    /\ (pc = "p_raised" /\ section_info.kind = "fallback") =>
          p_result = PRaised("progress_callback")
    /\ pc = "p_done" =>
          /\ w_result.done
          /\ w_result.io = "ok" /\ (\A i \in 1..Len(content_map.slides) :
                                      FailedSlide(content_map.slides[i])) => out_doc.exists
          /\ \A n \in 1..Len(stats.before_after) :
                stats.before_after[n].error # "" =>
                   \E c \in 1..Len(content_map.slides) :
                      /\ content_map.slides[c].slide_number = stats.before_after[n].slide_number
                      /\ content_map.slides[c].before_after = stats.before_after[n]
                      /\ FailedSlide(content_map.slides[c])

C21_Witness ==
    /\ pc = "p_done"
    /\ api_key
    /\ Len(sections) = 2
    /\ FailedSlide(content_map.slides[1])
    /\ content_map.slides[2].regenerated_texts =
          [j \in 1..Len(content_map.slides[2].texts) |-> Rewritten(content_map.slides[2].texts[j])]
    /\ out_doc.exists

----------------------------------------------------------------------------
(* C22: when opening, modifying or saving the document raises,              *)
(* modify_ppt_with_mapping returns false and no file exists at the output   *)
(* path; process_presentation still returns its result, with a false        *)
(* success flag, and the flag always equals what the Writer returned.       *)
C22_WriterFailureContained ==
    (pc = "p_done" /\ w_result.done) =>
        /\ p_result.state = "returned"
        /\ stats.has_success /\ stats.success = w_result.success
        /\ ~w_result.success => ~out_doc.exists

----------------------------------------------------------------------------
(* C23: for every group shape with a group_text_warning in the Document     *)
(* Snapshot, the Content Mapping has a warning for it in the slide's        *)
(* shape_warnings and in the presentation-wide warnings, and the warnings   *)
(* of the result of process_presentation hold it.                           *)
C23_GroupWarningsReachResult ==
    pc = "p_done" =>
        \A i \in 1..Len(presentation_info.slides) :
            \A j \in 1..Len(presentation_info.slides[i].shapes) :
                presentation_info.slides[i].shapes[j].group_text_warning =>
                    /\ [shape_idx |-> j - 1] \in Range(content_map.slides[i].shape_warnings)
                    /\ [shape_idx |-> j - 1] \in Range(content_map.warnings)
                    /\ [shape_idx |-> j - 1] \in Range(stats.warnings)

----------------------------------------------------------------------------
\* The main line is inside _process_section_with_retry
InSectionCall == pc \in {"o_call", "c_enter", "c_request", "o_returned"}

\* The client returned a non-empty list with one entry per slide of the section
CountValid ==
    /\ c_result.state = "returned"
    /\ c_result.value # <<>>
    /\ Len(c_result.value) = Len(Section)

\* ... and every entry is a dict
EntriesReadable == \A i \in 1..Len(c_result.value) : c_result.value[i].is_dict

\* What the orchestrator does with an invocation that has returned, given
\* whether it counts as passed
RetryStep(passed) ==
    pc = "o_returned" =>
        /\ passed => pc' = "p_finally" /\ section_info'.kind = "section"
        /\ (~passed /\ o_attempt < ORCH_MAX_RETRIES - 1) =>
              pc' = "o_call" /\ o_attempt' = o_attempt + 1
        /\ (~passed /\ o_attempt = ORCH_MAX_RETRIES - 1) =>
              pc' = "p_finally" /\ section_info'.kind = "fallback"

----------------------------------------------------------------------------
\* The slides of the first k sections carry a regenerated_texts list
MergedUpTo(k) ==
    \A m \in 1..k : \A i \in 1..Len(sections[m]) :
        content_map.slides[sections[m][i]].has_regenerated_texts

(* C25: the sections are processed one at a time in slide order: while the  *)
(* client is invoked for a section, every earlier section is merged into    *)
(* the content map and the Writer has not run; the Writer runs once, after  *)
(* every section is merged, when every slide of the content map carries a   *)
(* regenerated_texts list.                                                  *)
C25_SectionsInOrderThenWriter ==
    /\ \A j \in 1..Len(ConcatAll(sections)) : ConcatAll(sections)[j] = j
    /\ InSectionCall => MergedUpTo(section_idx) /\ ~w_result.done
    /\ w_result.done =>
          /\ pc = "p_done"
          /\ MergedUpTo(Len(sections))
          /\ \A i \in 1..Len(content_map.slides) :
                content_map.slides[i].has_regenerated_texts


----------------------------------------------------------------------------
\* A sub-batch has just ended: its block is the last of c_blocks and c_last
\* is what became of its last request
SubBatchEnded == c_requests = 0 /\ c_blocks # <<>> /\ c_last # ""

LastBlock == c_blocks[Len(c_blocks)]

(* C26: within one invocation a sub-batch receives at least 1 and at most   *)
(* 3 HTTP requests; a timeout or connection failure on the first or second  *)
(* request is followed by another request; after a third failed request no  *)
(* further request is made and the sub-batch becomes its placeholder.       *)
C26_RequestsPerSubBatch ==
    /\ \A b \in 1..Len(c_blocks) : c_blocks[b].requests \in 1..MAX_RETRIES
    /\ pc = "c_request" =>
          /\ c_requests = attempt /\ attempt < MAX_RETRIES
          /\ c_requests > 0 => c_last \in {"connection_failure", "failure"}
    /\ SubBatchEnded =>
          /\ c_last = "connection_failure" => LastBlock.requests = MAX_RETRIES
          /\ LastBlock.end = "placeholder" <=> c_last # "accepted"
          /\ LastBlock.end = "placeholder" =>
                LastBlock.entries = BatchPlaceholder(content_batches[Len(c_blocks)])

\* After a second sub-batch took three requests, the last a timeout or
\* connection failure, and became its placeholder
C26_Witness ==
    /\ SubBatchEnded
    /\ Len(c_blocks) = 2
    /\ c_last = "connection_failure"
    /\ c_blocks[2].requests = MAX_RETRIES
    /\ c_blocks[2].end = "placeholder"
    /\ c_blocks[1].end = "response"

(* C27: a response whose status is not 200 ends the attempts of its         *)
(* sub-batch at once: no further request is sent for it, the sub-batch      *)
(* becomes its placeholder, and the sub-batches after it are still sent.    *)
C27_StatusEndsSubBatch ==
    c_last = "status" /\ pc \in {"c_request", "c_done"} =>
        /\ c_requests = 0
        /\ c_blocks # <<>>
        /\ LastBlock.end = "placeholder"
        /\ LastBlock.entries = BatchPlaceholder(content_batches[Len(c_blocks)])
        /\ IF Len(c_blocks) < Len(content_batches)
           THEN pc = "c_request" /\ batch_idx = Len(c_blocks) /\ attempt = 0
           ELSE c_result.state = "returned"

\* A first sub-batch was ended by a status other than 200 on its second
\* request, and the second sub-batch is about to be sent
C27_Witness ==
    /\ c_last = "status"
    /\ pc = "c_request"
    /\ Len(c_blocks) = 1 /\ Len(content_batches) > 1
    /\ c_blocks[1].end = "placeholder" /\ c_blocks[1].requests = 2

----------------------------------------------------------------------------
\* The entries of the finished sub-batches, in sub-batch order
BlocksJoined == ConcatAll([b \in 1..Len(c_blocks) |-> c_blocks[b].entries])

\* A placeholder block holds one entry per slide of its sub-batch, in order,
\* each text behind the marker
IsPlaceholderOf(entries, batch) ==
    /\ Len(entries) = Len(batch)
    /\ \A i \in 1..Len(batch) :
          /\ entries[i].slide_number = batch[i].slide_number
          /\ entries[i].texts =
                [j \in 1..Len(batch[i].texts) |->
                    Prefixed(REGENERATION_FAILED, batch[i].texts[j])]

(* C28: the list a client invocation returns without the fallback of the    *)
(* whole call is the concatenation, in sub-batch order, of one block per    *)
(* sub-batch, each the accepted reply or the placeholder of that sub-batch; *)
(* what earlier sub-batches contributed stays as it was while later ones    *)
(* are sent.                                                                *)
C28_OneBlockPerSubBatch ==
    pc \in {"c_request", "c_done", "o_returned"} /\ c_result.state # "raised" =>
        /\ regenerated_content = BlocksJoined
        /\ \A b \in 1..Len(c_blocks) :
              /\ c_blocks[b].end \in {"response", "placeholder"}
              /\ c_blocks[b].end = "placeholder" =>
                    IsPlaceholderOf(c_blocks[b].entries, content_batches[b])
        /\ pc = "c_request" => Len(c_blocks) = batch_idx /\ batch_idx < Len(content_batches)
        /\ c_result.state = "returned" /\ ~c_result.final =>
              /\ Len(c_blocks) = Len(content_batches)
              /\ c_result.value = BlocksJoined

\* A call over three sub-batches returned an accepted reply, a placeholder
\* and an accepted reply
C28_Witness ==
    /\ c_result.state = "returned" /\ ~c_result.final
    /\ Len(c_blocks) = 3
    /\ c_blocks[1].end = "response" /\ c_blocks[1].entries # <<>>
    /\ c_blocks[2].end = "placeholder"
    /\ c_blocks[3].end = "response"
    /\ c_result.value = c_blocks[1].entries \o BatchPlaceholder(content_batches[2])
                            \o c_blocks[3].entries

----------------------------------------------------------------------------
(* _split_content_by_tokens on its own: sections of small, big and          *)
(* oversized slides                                                         *)

MaxTokenSlides == 4

TokenTextsChoices == {<<TA>>, <<TA, TB>>, <<TBig>>, <<THuge>>, <<TBig, TA>>}

TokenSections ==
    UNION {{[i \in 1..n |-> [slide_number |-> i, texts |-> f[i]]] :
                f \in [1..n -> TokenTextsChoices]} : n \in 0..MaxTokenSlides}

TokenInit ==
    /\ pc = "t_start"
    /\ doc = <<>>
    /\ presentation_info = NoInfo
    /\ content_map = NoMap
    /\ out_doc = NoFile
    /\ reread_map = NoMap
    /\ w_result = NoWrite
    /\ c_content \in TokenSections
    /\ content_batches = <<>>
    /\ api_key = TRUE
    /\ c_caller = "test"
    /\ batch_idx = 0
    /\ attempt = 0
    /\ regenerated_content = <<>>
    /\ c_blocks = <<>>
    /\ c_requests = 0
    /\ c_last = ""
    /\ c_context = <<>>
    /\ c_concepts = {}
    /\ c_result = NoResult
    /\ service = {}
    /\ remote_called = FALSE
    /\ OrchIdle

\* content_batches = self._split_content_by_tokens(content) (line 215)
TokenSplit ==
    /\ pc = "t_start"
    /\ content_batches' = SplitContentByTokens(c_content, MAX_TOKENS)
    /\ pc' = "t_done"
    /\ UNCHANGED <<docVars, api_key, c_context, c_concepts, c_caller, c_content, batch_idx,
                   attempt, regenerated_content, c_blocks, c_requests, c_last, c_result,
                   service, remote_called, orchVars>>

TokenNext == TokenSplit

SpecTokens == TokenInit /\ [][TokenNext]_vars

\* The estimated token cost of a sub-batch: the sum of its slides' estimates
RECURSIVE BatchTokens(_)
BatchTokens(batch) ==
    IF batch = <<>> THEN 0 ELSE SlideTokens(Head(batch)) + BatchTokens(Tail(batch))

(* C29: every sub-batch of more than one slide has an estimated token cost  *)
(* of at most max_tokens - 500; a sub-batch is above that only when it is a *)
(* single slide whose own estimate is above it.                             *)
C29_SubBatchWithinBudget ==
    pc = "t_done" =>
        \A b \in 1..Len(content_batches) :
            BatchTokens(content_batches[b]) > MAX_TOKENS - RESERVE =>
                /\ Len(content_batches[b]) = 1
                /\ SlideTokens(content_batches[b][1]) > MAX_TOKENS - RESERVE

\* A split with a sub-batch of several slides and an oversized single slide
C29_Witness ==
    /\ pc = "t_done"
    /\ \E b \in 1..Len(content_batches) :
          Len(content_batches[b]) > 1
          /\ BatchTokens(content_batches[b]) > (MAX_TOKENS - RESERVE) \div 2
    /\ \E b \in 1..Len(content_batches) :
          Len(content_batches[b]) = 1 /\ BatchTokens(content_batches[b]) > MAX_TOKENS - RESERVE

(* C30: the split loses, duplicates and reorders nothing: the sub-batches   *)
(* concatenated are the input, and no sub-batch is empty, also when the     *)
(* first slide alone is above the budget.                                   *)
C30_SplitKeepsEverySlide ==
    pc = "t_done" =>
        /\ ConcatAll(content_batches) = c_content
        /\ \A b \in 1..Len(content_batches) : content_batches[b] # <<>>

\* A section whose first slide alone is above the budget was split in
\* several sub-batches
C30_Witness ==
    /\ pc = "t_done"
    /\ Len(c_content) > 1
    /\ SlideTokens(c_content[1]) > MAX_TOKENS - RESERVE
    /\ Len(content_batches) > 1
    /\ content_batches[1] = <<c_content[1]>>

----------------------------------------------------------------------------
(* The client against services that answer 200 and differ in the body: one  *)
(* run per kind of service                                                  *)

ParseServices ==
    {{"unparsed"}, {"unparsed", "good"}, {"both"}, {"fenced"}, {"unparsed", "fenced"},
     {"status"}, {"status", "timeout"}, {"status", "unparsed", "good"}}

ParseInit ==
    /\ pc = "c_enter"
    /\ doc = <<>>
    /\ presentation_info = NoInfo
    /\ content_map = NoMap
    /\ out_doc = NoFile
    /\ reread_map = NoMap
    /\ w_result = NoWrite
    /\ api_key = TRUE
    /\ c_caller = "test"
    /\ c_content \in UNION {SectionsOf(n, 1) : n \in 0..MaxSectionLen}
    /\ content_batches = <<>>
    /\ batch_idx = 0
    /\ attempt = 0
    /\ regenerated_content = <<>>
    /\ c_blocks = <<>>
    /\ c_requests = 0
    /\ c_last = ""
    /\ c_context = <<>>
    /\ c_concepts = {}
    /\ c_result = NoResult
    /\ service \in ParseServices
    /\ remote_called = FALSE
    /\ OrchIdle

SpecParse == ParseInit /\ [][ClientNext]_vars

\* Block b is the accepted array of rewritten texts of its own sub-batch
AcceptedGood(b) ==
    c_blocks[b].end = "response" /\ c_blocks[b].entries = GoodEntries(content_batches[b])

\* Block b is the placeholder of its own sub-batch, after all three requests
PlaceholderAfterThree(b) ==
    /\ c_blocks[b].end = "placeholder"
    /\ c_blocks[b].requests = MAX_RETRIES
    /\ IsPlaceholderOf(c_blocks[b].entries, content_batches[b])

(* C31: a 200 body is parsed strictly first and the code fence is tried     *)
(* only when that fails; a body that fails both leads to another request    *)
(* while attempts remain, and after three such bodies the sub-batch is its  *)
(* placeholder: one entry per slide, in order, with the slide's number and  *)
(* each original text behind the failure marker.                            *)
C31_ParseOrderAndExhaustion ==
    /\ pc = "c_request" => c_requests = attempt /\ attempt < MAX_RETRIES
    /\ \A b \in 1..Len(c_blocks) :
          /\ service = {"unparsed"} => PlaceholderAfterThree(b)
          /\ service = {"unparsed", "good"} => AcceptedGood(b) \/ PlaceholderAfterThree(b)
          /\ service = {"both"} => AcceptedGood(b) /\ c_blocks[b].requests = 1
          /\ service = {"fenced"} => c_blocks[b].end = "response" /\ c_blocks[b].requests = 1
          /\ service = {"unparsed", "fenced"} =>
                c_blocks[b].end = "response" \/ PlaceholderAfterThree(b)

\* Two sub-batches of unparsable bodies: the first accepted at its third
\* request, the second its placeholder after three
C31_Witness ==
    /\ service = {"unparsed", "good"}
    /\ c_result.state = "returned"
    /\ Len(c_blocks) = 2
    /\ AcceptedGood(1) /\ c_blocks[1].requests = MAX_RETRIES
    /\ PlaceholderAfterThree(2)

----------------------------------------------------------------------------
\* The number of sections merged into the content map so far
MergedCount ==
    IF pc \in {"p_next", "p_done"} /\ sections # <<>> THEN section_idx + 1 ELSE section_idx

\* The regenerated_texts of the section's slides are the texts of the entries
\* of the client invocation that returned last, position by position
FromLastInvocation ==
    /\ CountValid /\ EntriesReadable
    /\ \A i \in 1..Len(Section) :
          /\ content_map.slides[Section[i]].has_regenerated_texts
          /\ content_map.slides[Section[i]].regenerated_texts = c_result.value[i].texts

\* ... are the orchestrator's fallback
AllFallback ==
    \A i \in 1..Len(Section) :
        LET slide == content_map.slides[Section[i]]
        IN /\ slide.has_regenerated_texts
           /\ slide.regenerated_texts =
                 [j \in 1..Len(slide.texts) |-> Prefixed(REGENERATION_FAILED, slide.texts[j])]

(* C32: after a section is merged, the regenerated_texts of all its slides  *)
(* come from one client invocation, the one that passed, or are all the     *)
(* orchestrator's fallback; what an attempt attached before it failed does  *)
(* not survive, and a merged section's slides stay as merged up to the      *)
(* Writer.                                                                  *)
C32_SectionFromOneInvocation ==
    /\ [](pc = "p_next" =>
            IF section_info.kind = "fallback" THEN AllFallback ELSE FromLastInvocation)
    /\ [][\A m \in 1..MergedCount : \A i \in 1..Len(sections[m]) :
             content_map'.slides[sections[m][i]] = content_map.slides[sections[m][i]]]_vars

\* A section of two slides fell back after attempts that had attached the
\* first slide's texts and failed on the second entry
C32_Witness ==
    /\ pc = "p_next"
    /\ api_key /\ service = {"good", "last_not_dict"}
    /\ Len(Section) = 2
    /\ section_info.kind = "fallback"
    /\ AllFallback

----------------------------------------------------------------------------
(* The pipeline with a main line that keeps running: every remote call      *)
(* returns or times out, every sleep ends                                   *)
LiveServices == {{"good"}, {"good", "status", "timeout"}, {"good", "number_texts"}}

LiveInit ==
    ProcessInit(PipelineDocs, 1..MaxPerSection, {MAX_TOTAL_SLIDES}, {FALSE}, {TRUE},
                LiveServices)

\* The steps of the main line after the document is read and split
SectionLoop ==
    \/ ReportInitial
    \/ SectionBegin
    \/ OrchCall
    \/ ClientEnter
    \/ ClientRequest
    \/ OrchReturned
    \/ StopSimulation
    \/ CountSection
    \/ ReportSection
    \/ MergeSection
    \/ WriteAndReturn

SpecLive == LiveInit /\ [][Next]_vars /\ WF_vars(SectionLoop)

\* The call has ended, by returning or by raising
Ended == pc \in {"p_done", "p_raised"}

(* C33: process_presentation terminates for any behaviour of the remote     *)
(* service: past the checks of its arguments, and with no callback that     *)
(* could raise, a section makes at most 3 client invocations, a sub-batch   *)
(* gets at                                                                  *)
(* most 3 requests per invocation, and in the end the Writer has run and    *)
(* the result is returned.                                                  *)
C33_EndsWithWriterAndResult ==
    /\ [](InSectionCall => o_attempt < ORCH_MAX_RETRIES)
    /\ [](pc = "c_request" => c_requests < MAX_RETRIES)
    /\ [](pc = "p_report_initial" =>
             <>(pc = "p_done" /\ w_result.done /\ p_result.state = "returned"))

----------------------------------------------------------------------------
\* Section k as it stands merged in the content map
MergedSection(k) == [i \in 1..Len(sections[k]) |-> content_map.slides[sections[k][i]]]

\* The summaries of the first n sections as merged, in order
SummariesUpTo(n) ==
    [k \in 1..n |-> [section |-> k, summary |-> SummarizeSectionContent(MergedSection(k))]]

\* The concepts of the first n sections as merged
ConceptsUpTo(n) == UNION {ExtractKeyConcepts(MergedSection(k)) : k \in 1..n}

(* C34: the context passed to the rewrite call of section k is the in-order *)
(* concatenation of the summaries of sections 1..k-1 as merged, the key     *)
(* concepts passed are the union of those of sections 1..k-1, the           *)
(* accumulated set never loses an element, and the result's key_concepts is *)
(* the union over all sections.                                             *)
C34_ContextAccumulates ==
    /\ [](pc \in {"c_enter", "c_request", "o_returned"} =>
             /\ c_context = SummariesUpTo(section_idx)
             /\ c_concepts = ConceptsUpTo(section_idx))
    /\ [](pc = "p_done" =>
             /\ stats.key_concepts = ConceptsUpTo(Len(sections))
             /\ previous_context = SummariesUpTo(Len(sections)))
    /\ [][key_concepts \subseteq key_concepts']_vars

\* The call for the second section of a document whose first section
\* brought a summary and a concept the second does not hold
C34_Witness ==
    /\ pc = "c_request"
    /\ section_idx = 1
    /\ doc = <<SlideTwoParas, SlideOne>>
    /\ c_context = <<[section |-> 1,
                      summary |-> FullText(MergedSection(1))]>>
    /\ c_context[1].summary # <<>>
    /\ "b" \in c_concepts
    /\ "b" \notin ExtractKeyConcepts(c_content)

----------------------------------------------------------------------------
\* The step on which an orchestrator attempt succeeds (line 320: return section)
AttemptSucceeds ==
    /\ pc = "o_returned"
    /\ pc' = "p_finally"
    /\ section_info'.kind = "section"

(* C35: on a successful orchestrator attempt each slide of the section gets *)
(* the entry's texts attached in full as regenerated_texts and a record     *)
(* with exactly min(#original, #regenerated) changes, change j pairing      *)
(* original j with regenerated j; what has no partner is left out.          *)
C35_BeforeAfterIsZip ==
    [][AttemptSucceeds =>
        \A i \in 1..Len(Section) :
            LET before == content_map.slides[Section[i]]
                after == content_map'.slides[Section[i]]
                entry == c_result.value[i]
            IN /\ after.has_regenerated_texts
               /\ after.regenerated_texts = entry.texts
               /\ after.has_before_after
               /\ Len(after.before_after.changes) =
                      Min(Len(before.texts), Len(entry.texts))
               /\ \A j \in 1..Len(after.before_after.changes) :
                      after.before_after.changes[j] =
                          [before |-> before.texts[j], after |-> entry.texts[j]]]_vars

\* After the second section's attempt succeeded: the first slide got fewer
\* texts than it has, the second more
C35_Witness ==
    /\ pc = "p_finally"
    /\ section_info.kind = "section"
    /\ section_idx = 1
    /\ LET first == content_map.slides[1]
           second == content_map.slides[2]
       IN /\ first.has_before_after /\ first.before_after.error = ""
          /\ Len(first.regenerated_texts) < Len(first.texts)
          /\ Len(first.before_after.changes) = Len(first.regenerated_texts)
          /\ second.has_before_after /\ second.before_after.error = ""
          /\ Len(second.regenerated_texts) > Len(second.texts)
          /\ Len(second.before_after.changes) = Len(second.texts)

----------------------------------------------------------------------------
\* A slide entry without what the orchestrator attaches
WithoutAttached(slide) ==
    [slide EXCEPT !.has_regenerated_texts = FALSE,
                  !.regenerated_texts = <<>>,
                  !.has_before_after = FALSE,
                  !.before_after = NoBeforeAfter]

(* C36: the snapshot and the content map start as what read_ppt and the     *)
(* mapper produce, and after that no step changes the snapshot or anything  *)
(* of a slide entry but the attached regenerated_texts and before_after.    *)
C36_SnapshotAndMappingsKept ==
    [][IF pc = "p_start"
       THEN /\ presentation_info' = ReadPpt(doc)
            /\ content_map' = ExtractContentWithMapping(presentation_info')
       ELSE /\ presentation_info' = presentation_info
            /\ doc' = doc
            /\ content_map'.slide_count = content_map.slide_count
            /\ content_map'.warnings = content_map.warnings
            /\ Len(content_map'.slides) = Len(content_map.slides)
            /\ \A n \in 1..Len(content_map.slides) :
                  WithoutAttached(content_map'.slides[n]) =
                      WithoutAttached(content_map.slides[n])]_vars

\* A finished run whose first section fell back after failed attempts and
\* whose second was rewritten
C36_Witness ==
    /\ pc = "p_done"
    /\ Len(content_map.slides) = 2
    /\ content_map.slides[1].has_before_after
    /\ content_map.slides[1].before_after.error # ""
    /\ content_map.slides[2].has_before_after
    /\ content_map.slides[2].before_after.error = ""
    /\ content_map.slides[2].regenerated_texts # content_map.slides[2].texts
    /\ content_map.slides[2].texts # <<>>

----------------------------------------------------------------------------
(* C37: a response whose status is not 200 is followed by another request   *)
(* for the same sub-batch while attempts remain, and the sub-batch becomes  *)
(* its placeholder only after all its attempts are used.                    *)
C37_StatusIsRetried ==
    c_last = "status" =>
        \/ pc = "c_request" /\ c_requests \in 1..(MAX_RETRIES - 1)
        \/ /\ SubBatchEnded
           /\ LastBlock.end = "placeholder"
           /\ LastBlock.requests = MAX_RETRIES

----------------------------------------------------------------------------
\* The JSON arrays the service's bodies for a sub-batch parse to, strictly or
\* inside the code fence
ArraysOf(batch) ==
    {o.strict.items : o \in {x \in Outcomes(batch) : x.strict.type = "list"}}
    \cup {o.fenced.items : o \in {x \in Outcomes(batch) : x.fenced.type = "list"}}

(* C38: the entries a sub-batch contributes from a response are those of a  *)
(* JSON array the response parsed to, by the strict parse or by the fenced  *)
(* interior; a value that is no array never contributes entries.            *)
C38_OnlyArraysAccepted ==
    \A b \in 1..Len(c_blocks) :
        c_blocks[b].end = "response" =>
            c_blocks[b].entries \in ArraysOf(content_batches[b])

----------------------------------------------------------------------------
\* No two entries of a text_map have the same (para_idx, run_idx)
PairsDistinct(text_map) ==
    \A a, b \in 1..Len(text_map) :
        a # b => <<text_map[a].para_idx, text_map[a].run_idx>> #
                 <<text_map[b].para_idx, text_map[b].run_idx>>

(* C39: what read_ppt returns has slide_count entries numbered 1 to         *)
(* slide_count in order, and in the text_map of every shape, the flattened  *)
(* text_map of a group included, the (para_idx, run_idx) pairs are pairwise *)
(* distinct.                                                                *)
C39_SlidesNumberedPairsDistinct ==
    pc # "d_start" =>
        /\ presentation_info.slide_count = Len(doc)
        /\ Len(presentation_info.slides) = presentation_info.slide_count
        /\ \A i \in 1..Len(presentation_info.slides) :
              /\ presentation_info.slides[i].slide_number = i
              /\ \A j \in 1..Len(presentation_info.slides[i].shapes) :
                    PairsDistinct(presentation_info.slides[i].shapes[j].text_map)

====
